---- MODULE Spec2Model ----
(***************************************************************************)
(* Fraud Scoring Engine of the AI Expense Auditor                          *)
(* (src/backend/services/fraud_detector.py) over the invoices table        *)
(* (src/backend/models/invoice.py).                                        *)
(*                                                                         *)
(* Conventions                                                             *)
(*  - text (vendor_name, invoice_number, description) is a sequence of     *)
(*    one-character strings; the empty sequence is the absent/empty text;  *)
(*  - money is an integer number of thousandths (200.00 is 200000); 0 is   *)
(*    the absent amount (Python treats None and 0 alike in every test the  *)
(*    engine makes: "x or y", "not x", all([...]));                        *)
(*  - scores and confidence are integers in hundredths (0.8 is 80).        *)
(***************************************************************************)
EXTENDS Integers, Sequences, FiniteSets, TLC

(***************************************************************************)
(* Bounds of the model.                                                    *)
(***************************************************************************)
MaxRecords == 2

\* lines of a raw text
MaxLines == 3

\* file paths of a batch
MaxBatch == 3

(***************************************************************************)
(* Text helpers: str.lower(), "sub in s", SQL ILIKE '%pat%'.               *)
(***************************************************************************)
UpperCase ==
  <<"A","B","C","D","E","F","G","H","I","J","K","L","M",
    "N","O","P","Q","R","S","T","U","V","W","X","Y","Z">>

LowerCase ==
  <<"a","b","c","d","e","f","g","h","i","j","k","l","m",
    "n","o","p","q","r","s","t","u","v","w","x","y","z">>

Digits == {"0","1","2","3","4","5","6","7","8","9"}

LowerChar(c) ==
  IF \E i \in DOMAIN UpperCase : UpperCase[i] = c
    THEN LowerCase[CHOOSE i \in DOMAIN UpperCase : UpperCase[i] = c]
    ELSE c

Lower(s) == [i \in 1..Len(s) |-> LowerChar(s[i])]

Contains(s, sub) ==
  \E i \in 0..(Len(s) - Len(sub)) : \A j \in 1..Len(sub) : s[i + j] = sub[j]

Ilike(column, pattern) == Contains(Lower(column), Lower(pattern))

(***************************************************************************)
(* Integer helpers.                                                        *)
(***************************************************************************)
Max(a, b) == IF a >= b THEN a ELSE b

Min(a, b) == IF a <= b THEN a ELSE b

Abs(a) == IF a >= 0 THEN a ELSE 0 - a

RECURSIVE SumSeq(_)
SumSeq(s) == IF s = <<>> THEN 0 ELSE Head(s) + SumSeq(Tail(s))

RECURSIVE MaxSeq(_)
MaxSeq(s) == IF Len(s) = 1 THEN Head(s) ELSE Max(Head(s), MaxSeq(Tail(s)))

(***************************************************************************)
(* str() of a Python float and of a Numeric(10, 2) column value.           *)
(***************************************************************************)
DigitChar(d) == <<"0","1","2","3","4","5","6","7","8","9">>[d + 1]

RECURSIVE IntStr(_)
IntStr(n) == IF n < 10 THEN <<DigitChar(n)>> ELSE IntStr(n \div 10) \o <<DigitChar(n % 10)>>

\* repr of a float with at most three decimals: shortest digits, at least one
FloatStr(m) ==
  LET f == m % 1000
      frac == IF f % 100 = 0 THEN <<DigitChar(f \div 100)>>
              ELSE IF f % 10 = 0 THEN <<DigitChar(f \div 100), DigitChar((f \div 10) % 10)>>
              ELSE <<DigitChar(f \div 100), DigitChar((f \div 10) % 10), DigitChar(f % 10)>>
  IN  IntStr(m \div 1000) \o <<".">> \o frac

\* str of a Decimal quantized to two places
DecimalStr(m) ==
  LET c == (m \div 10) % 100
  IN  IntStr(m \div 1000) \o <<".", DigitChar(c \div 10), DigitChar(c % 10)>>

(***************************************************************************)
(* Configuration set by FraudDetector.__init__.                            *)
(***************************************************************************)
ThresholdDuplicate == 80
ThresholdInflation == 150
ThresholdGhostVendor == 70
ThresholdSplitBilling == 90
ThresholdSuspiciousPatterns == 60

SuspiciousVendors ==
  { <<"c","a","s","h">>, <<"p","e","r","s","o","n","a","l">>,
    <<"f","r","i","e","n","d">>, <<"f","a","m","i","l","y">>,
    <<"t","e","s","t">>, <<"d","e","m","o">> }

HighFrequencyVendors == 10
SuspiciousAmountMin == 10
SuspiciousAmountMax == 10000000
ApprovalThreshold == 5000000
NewVendorAmount == 1000000
ExactDuplicateTolerance == 10

BusinessIndicators ==
  { <<"i","n","c">>, <<"l","l","c">>, <<"c","o","r","p">>, <<"l","t","d">>,
    <<"c","o","m","p","a","n","y">>, <<"c","o">> }

\* re.match(r'^\d+\.00$', s)
RoundAmounts(s) ==
  /\ Len(s) >= 4
  /\ s[Len(s) - 2] = "." /\ s[Len(s) - 1] = "0" /\ s[Len(s)] = "0"
  /\ \A i \in 1..(Len(s) - 3) : s[i] \in Digits

\* re.search(r'INV-\d{4}-\d{4}', s)
SequentialInvoices(s) ==
  \E i \in 0..(Len(s) - 13) :
    /\ s[i + 1] = "I" /\ s[i + 2] = "N" /\ s[i + 3] = "V" /\ s[i + 4] = "-"
    /\ \A j \in 5..8 : s[i + j] \in Digits
    /\ s[i + 9] = "-"
    /\ \A j \in 10..13 : s[i + j] \in Digits

(***************************************************************************)
(* Text similarity: TfidfVectorizer(stop_words='english',                  *)
(* ngram_range=(1, 2)).fit_transform on the two texts, then cosine         *)
(* similarity of the two rows, in hundredths rounded down.                 *)
(***************************************************************************)
NonWordChars == {" ", ".", "-", ",", "$", "#", ":", "(", ")", "@"}

\* the entries of the library's English stop list that the texts here can hold
StopWords ==
  { <<"c","o">>, <<"i","n","c">>, <<"l","t","d">>, <<"t","h","e">>,
    <<"a","n","d">>, <<"f","o","r">>, <<"o","f">> }

\* token_pattern (?u)\b\w\w+\b: maximal runs of word characters, two or more
RECURSIVE Words(_, _)
Words(s, cur) ==
  LET done == IF Len(cur) >= 2 THEN <<cur>> ELSE <<>>
  IN  IF s = <<>> THEN done
      ELSE IF Head(s) \in NonWordChars THEN done \o Words(Tail(s), <<>>)
      ELSE Words(Tail(s), Append(cur, Head(s)))

Tokens(text) ==
  LET NotStop(w) == w \notin StopWords
  IN  SelectSeq(Words(Lower(text), <<>>), NotStop)

\* unigrams, then bigrams of adjacent tokens
Ngrams(toks) ==
  [i \in 1..Len(toks) |-> <<toks[i]>>]
    \o [i \in 1..(Len(toks) - 1) |-> <<toks[i], toks[i + 1]>>]

JoinText(a, b, c) == a \o <<" ">> \o b \o <<" ">> \o c

TermCount(f, feats) == Cardinality({i \in DOMAIN feats : feats[i] = f})

RECURSIVE SumOver(_, _, _)
SumOver(S, f1, f2) ==
  IF S = {} THEN 0
  ELSE LET x == CHOOSE y \in S : TRUE
       IN  TermCount(x, f1) * TermCount(x, f2) + SumOver(S \ {x}, f1, f2)

\* The similarity is a float that nothing clips.  For two documents with the
\* same n distinct features, each occurring once, every weight is 1/sqrt(n);
\* l2-normalising the rows (fit_transform, then cosine_similarity again) and
\* summing the n products in double precision ends above 1.0 for these n
RoundsAboveOne == {2, 3, 5, 6, 7, 8, 9, 10, 11, 12, 13, 14, 18, 19, 20, 24}

\* smooth idf over two documents is 1 for a shared term and ln(3/2) + 1 for a
\* term of one document only; its square, 1.975, is taken as 2.  The result
\* is in hundredths, rounded down; 101 stands for a float just above 1.0
CosineSimilarity(f1, f2) ==
  LET V1 == {f1[i] : i \in DOMAIN f1}
      V2 == {f2[i] : i \in DOMAIN f2}
      both == V1 \cap V2
      dot == SumOver(both, f1, f2)
      n1 == SumOver(both, f1, f1) + 2 * SumOver(V1 \ V2, f1, f1)
      n2 == SumOver(both, f2, f2) + 2 * SumOver(V2 \ V1, f2, f2)
      n == Cardinality(V1)
  IN  IF n1 = 0 \/ n2 = 0 THEN 0
      ELSE IF V1 = V2 /\ n1 = n /\ n2 = n /\ n \in RoundsAboveOne THEN 101
      ELSE CHOOSE k \in 0..100 :
             /\ k * k * n1 * n2 <= 10000 * dot * dot
             /\ (k + 1) * (k + 1) * n1 * n2 > 10000 * dot * dot

CalculateTextSimilarity(invoice_data, existing_invoice) ==
  LET text1 == JoinText(invoice_data.description, invoice_data.vendor_name,
                        IF invoice_data.amount = 0 THEN <<>>
                        ELSE FloatStr(invoice_data.amount))
      text2 == JoinText(existing_invoice.description, existing_invoice.vendor_name,
                        IF existing_invoice.amount = 0 THEN <<>>
                        ELSE DecimalStr(existing_invoice.amount))
      f1 == Ngrams(Tokens(text1))
      f2 == Ngrams(Tokens(text2))
  IN  IF f1 = <<>> /\ f2 = <<>> THEN 0   \* empty vocabulary: ValueError, caught
      ELSE CosineSimilarity(f1, f2)

(***************************************************************************)
(* The same computation in the two steps fit_transform makes on the shared *)
(* vectorizer: fit stores the idf weights of the two texts at hand in the  *)
(* instance, transform multiplies the term counts of the caller's texts by *)
(* the weights the instance holds at that moment.                          *)
(***************************************************************************)
\* the characters of a feature, by code point
CharOrder ==
  <<" ", "0", "1", "2", "3", "4", "5", "6", "7", "8", "9", "_", "a", "b", "c", "d",
    "e", "f", "g", "h", "i", "j", "k", "l", "m", "n", "o", "p", "q", "r", "s", "t",
    "u", "v", "w", "x", "y", "z">>

CodePoint(c) == CHOOSE i \in DOMAIN CharOrder : CharOrder[i] = c

\* a feature as the vocabulary names it: its tokens joined by a space
RECURSIVE FeatureString(_)
FeatureString(feature) ==
  IF Len(feature) = 1 THEN feature[1]
  ELSE feature[1] \o <<" ">> \o FeatureString(Tail(feature))

RECURSIVE StringBefore(_, _)
StringBefore(a, b) ==
  IF b = <<>> THEN FALSE
  ELSE IF a = <<>> THEN TRUE
  ELSE IF Head(a) = Head(b) THEN StringBefore(Tail(a), Tail(b))
  ELSE CodePoint(Head(a)) < CodePoint(Head(b))

\* the column of feature x: its place in the sorted vocabulary V
Column(x, V) ==
  1 + Cardinality({y \in V : StringBefore(FeatureString(y), FeatureString(x))})

Vocabulary(f1, f2) == {f1[i] : i \in DOMAIN f1} \cup {f2[i] : i \in DOMAIN f2}

\* TfidfTransformer.fit: per column the squared idf, 1 for a term of both
\* texts and 2 (for 1.975) for a term of one text only
FitIdf(f1, f2) ==
  LET V == Vocabulary(f1, f2)
      both == {f1[i] : i \in DOMAIN f1} \cap {f2[i] : i \in DOMAIN f2}
  IN  [col \in 1..Cardinality(V) |->
         IF (CHOOSE x \in V : Column(x, V) = col) \in both THEN 1 ELSE 2]

RECURSIVE WeightedSum(_, _, _, _, _)
WeightedSum(S, V, idf, f1, f2) ==
  IF S = {} THEN 0
  ELSE LET x == CHOOSE y \in S : TRUE
       IN  idf[Column(x, V)] * TermCount(x, f1) * TermCount(x, f2)
             + WeightedSum(S \ {x}, V, idf, f1, f2)

\* TfidfTransformer.transform under the weights idf, then cosine_similarity;
\* weights fitted to another number of columns raise ValueError, which
\* _calculate_text_similarity catches and turns into 0.0
TransformAndCompare(idf, f1, f2) ==
  LET V == Vocabulary(f1, f2)
      dot == WeightedSum(V, V, idf, f1, f2)
      n1 == WeightedSum(V, V, idf, f1, f1)
      n2 == WeightedSum(V, V, idf, f2, f2)
      n == Cardinality(V)
  IN  IF Len(idf) # n THEN 0
      ELSE IF n1 = 0 \/ n2 = 0 THEN 0
      ELSE IF dot = n /\ n1 = n /\ n2 = n /\ n \in RoundsAboveOne THEN 101
      ELSE CHOOSE k \in 0..100 :
             /\ k * k * n1 * n2 <= 10000 * dot * dot
             /\ (k + 1) * (k + 1) * n1 * n2 > 10000 * dot * dot

\* the floats transform can return: for two texts with the same terms under
\* weights fitted to other texts the sum ends at 1.0 or just above it
TransformOutcomes(idf, f1, f2) ==
  LET V == Vocabulary(f1, f2)
      same == \A x \in V : TermCount(x, f1) = TermCount(x, f2)
  IN  IF Len(idf) = Cardinality(V) /\ same /\ idf # FitIdf(f1, f2) THEN {100, 101}
      ELSE {TransformAndCompare(idf, f1, f2)}

\* the features of the two texts _calculate_text_similarity joins
InvoiceFeatures(invoice_data) ==
  Ngrams(Tokens(JoinText(invoice_data.description, invoice_data.vendor_name,
                         IF invoice_data.amount = 0 THEN <<>>
                         ELSE FloatStr(invoice_data.amount))))

RecordFeatures(existing_invoice) ==
  Ngrams(Tokens(JoinText(existing_invoice.description, existing_invoice.vendor_name,
                         IF existing_invoice.amount = 0 THEN <<>>
                         ELSE DecimalStr(existing_invoice.amount))))

(***************************************************************************)
(* The five signal checks. store is the invoices table (a sequence of      *)
(* rows, by id); failing is the set of query sites whose query raises.     *)
(* An invoice_data that is not a mapping (mapping = FALSE) makes every     *)
(* .get raise AttributeError.                                              *)
(***************************************************************************)
\* invoice_data.get('total_amount') or invoice_data.get('amount')
InvoiceAmount(invoice_data) ==
  IF invoice_data.total_amount # 0 THEN invoice_data.total_amount
  ELSE invoice_data.amount

\* faulty variant: no fallback to amount
RecordAmountTotalOnly(inv) == inv.total_amount

\* float(inv.total_amount or inv.amount or 0)
RecordAmount(inv) == IF inv.total_amount # 0 THEN inv.total_amount ELSE inv.amount

IsExactDuplicate(invoice_data, existing_invoice) ==
  /\ Lower(invoice_data.vendor_name) = Lower(existing_invoice.vendor_name)
  /\ InvoiceAmount(invoice_data) # 0
  /\ RecordAmount(existing_invoice) # 0
  /\ Abs(InvoiceAmount(invoice_data) - RecordAmount(existing_invoice))
       < ExactDuplicateTolerance

CheckDuplicateClaims(invoice_data, store, failing) ==
  IF ~invoice_data.mapping THEN 0
  ELSE
    LET vendor_name == Lower(invoice_data.vendor_name)
        amount == InvoiceAmount(invoice_data)
        Similar(inv) == /\ Ilike(inv.vendor_name, vendor_name)
                        /\ inv.total_amount = amount
                        /\ inv.status = "processed"
        similar_invoices == SelectSeq(store, Similar)
    IN  IF vendor_name = <<>> \/ amount = 0 \/ invoice_data.invoice_date = "" THEN 0
        ELSE IF "duplicate" \in failing THEN 0
        ELSE IF similar_invoices = <<>> THEN 0
        ELSE IF \E i \in DOMAIN similar_invoices :
                  IsExactDuplicate(invoice_data, similar_invoices[i]) THEN 100
        ELSE MaxSeq([i \in DOMAIN similar_invoices |->
                       CalculateTextSimilarity(invoice_data, similar_invoices[i])])

\* the rows the duplicate query returns
FindSimilarInvoices(invoice_data, store) ==
  LET Similar(inv) == /\ Ilike(inv.vendor_name, Lower(invoice_data.vendor_name))
                      /\ inv.total_amount = InvoiceAmount(invoice_data)
                      /\ inv.status = "processed"
  IN  SelectSeq(store, Similar)

\* whether _check_duplicate_claims gets as far as the text similarity
ReachesTextSimilarity(invoice_data, store) ==
  /\ invoice_data.mapping
  /\ invoice_data.vendor_name # <<>>
  /\ InvoiceAmount(invoice_data) # 0
  /\ invoice_data.invoice_date # ""
  /\ FindSimilarInvoices(invoice_data, store) # <<>>
  /\ \A i \in DOMAIN FindSimilarInvoices(invoice_data, store) :
       ~IsExactDuplicate(invoice_data, FindSimilarInvoices(invoice_data, store)[i])

\* None is [n |-> 0]; otherwise the average is sum / n
GetCategoryAverage(invoice_data, store, failing) ==
  IF ~invoice_data.mapping THEN [sum |-> 0, n |-> 0]
  ELSE
    LET SameCategory(inv) == /\ inv.category = invoice_data.category
                             /\ inv.status = "processed"
        category_invoices == SelectSeq(store, SameCategory)
    IN  IF invoice_data.category = "" THEN [sum |-> 0, n |-> 0]
        ELSE IF "category" \in failing THEN [sum |-> 0, n |-> 0]
        ELSE [sum |-> SumSeq([i \in DOMAIN category_invoices |->
                                RecordAmount(category_invoices[i])]),
              n |-> Len(category_invoices)]

CheckInflatedExpenses(invoice_data, store, failing) ==
  IF ~invoice_data.mapping THEN 0
  ELSE
    LET amount == InvoiceAmount(invoice_data)
        category_avg == GetCategoryAverage(invoice_data, store, failing)
    IN  IF amount = 0 \/ invoice_data.category = "" THEN 0
        ELSE IF category_avg.n = 0 \/ category_avg.sum = 0 THEN 0
        \* inflation_ratio = amount / category_avg
        ELSE IF amount * category_avg.n > 3 * category_avg.sum THEN 100
        ELSE IF amount * category_avg.n > 2 * category_avg.sum THEN 80
        ELSE IF 2 * amount * category_avg.n > 3 * category_avg.sum THEN 60
        ELSE 0

VerifyVendor(invoice_data) ==
  IF ~invoice_data.mapping THEN 50
  ELSE
    LET vendor_name == Lower(invoice_data.vendor_name)
    IN  IF Len(vendor_name) < 3 THEN 80
        ELSE IF ~(\E indicator \in BusinessIndicators : Contains(vendor_name, indicator))
          THEN 60
        ELSE 20

\* faulty variant: the keyword test placed after the vendor-history query
CheckGhostVendorQueryFirst(invoice_data, store, failing) ==
  IF ~invoice_data.mapping THEN 0
  ELSE
    LET vendor_name == Lower(invoice_data.vendor_name)
        verification_score == VerifyVendor(invoice_data)
        vendor_history ==
          Cardinality({i \in DOMAIN store : Ilike(store[i].vendor_name, vendor_name)})
        amount == InvoiceAmount(invoice_data)
    IN  IF vendor_name = <<>> THEN 0
        ELSE IF "vendor_history" \in failing THEN 0
        ELSE IF \E suspicious \in SuspiciousVendors : Contains(vendor_name, suspicious)
          THEN 90
        ELSE IF vendor_history = 0 /\ amount > NewVendorAmount THEN 70
        ELSE verification_score

\* faulty variant: a short name decides before the new-vendor test
CheckGhostVendorShortNameFirst(invoice_data, store, failing) ==
  IF ~invoice_data.mapping THEN 0
  ELSE
    LET vendor_name == Lower(invoice_data.vendor_name)
        verification_score == VerifyVendor(invoice_data)
        vendor_history ==
          Cardinality({i \in DOMAIN store : Ilike(store[i].vendor_name, vendor_name)})
        amount == InvoiceAmount(invoice_data)
    IN  IF vendor_name = <<>> THEN 0
        ELSE IF \E suspicious \in SuspiciousVendors : Contains(vendor_name, suspicious)
          THEN 90
        ELSE IF verification_score = 80 THEN 80
        ELSE IF "vendor_history" \in failing THEN 0
        ELSE IF vendor_history = 0 /\ amount > NewVendorAmount THEN 70
        ELSE verification_score

\* faulty variant: a failing vendor-history query counts as no prior invoice
CheckGhostVendorNoCandidates(invoice_data, store, failing) ==
  IF ~invoice_data.mapping THEN 0
  ELSE
    LET vendor_name == Lower(invoice_data.vendor_name)
        verification_score == VerifyVendor(invoice_data)
        vendor_history ==
          IF "vendor_history" \in failing THEN 0
          ELSE Cardinality({i \in DOMAIN store : Ilike(store[i].vendor_name, vendor_name)})
        amount == InvoiceAmount(invoice_data)
    IN  IF vendor_name = <<>> THEN 0
        ELSE IF \E suspicious \in SuspiciousVendors : Contains(vendor_name, suspicious)
          THEN 90
        ELSE IF vendor_history = 0 /\ amount > NewVendorAmount THEN 70
        ELSE verification_score

CheckGhostVendor(invoice_data, store, failing) ==
  IF ~invoice_data.mapping THEN 0
  ELSE
    LET vendor_name == Lower(invoice_data.vendor_name)
        verification_score == VerifyVendor(invoice_data)
        vendor_history ==
          Cardinality({i \in DOMAIN store : Ilike(store[i].vendor_name, vendor_name)})
        amount == InvoiceAmount(invoice_data)
    IN  IF vendor_name = <<>> THEN 0
        ELSE IF \E suspicious \in SuspiciousVendors : Contains(vendor_name, suspicious)
          THEN 90
        ELSE IF "vendor_history" \in failing THEN 0
        ELSE IF vendor_history = 0 /\ amount > NewVendorAmount THEN 70
        ELSE verification_score

\* faulty variant: the identical-amounts test placed before the sum test
CheckSplitBillingIdenticalFirst(invoice_data, store, failing) ==
  IF ~invoice_data.mapping THEN 0
  ELSE
    LET vendor_name == Lower(invoice_data.vendor_name)
        amount == InvoiceAmount(invoice_data)
        Related(inv) == /\ Ilike(inv.vendor_name, vendor_name)
                        /\ inv.invoice_date = invoice_data.invoice_date
                        /\ inv.status = "processed"
        related_invoices == SelectSeq(store, Related)
        amounts == [i \in DOMAIN related_invoices |-> RecordAmount(related_invoices[i])]
    IN  IF vendor_name = <<>> \/ amount = 0 \/ invoice_data.invoice_date = "" THEN 0
        ELSE IF "split" \in failing THEN 0
        ELSE IF Len(related_invoices) < 2 THEN 0
        ELSE IF Cardinality({amounts[i] : i \in DOMAIN amounts}) = 1 THEN 80
        ELSE IF SumSeq(amounts) > ApprovalThreshold THEN 90
        ELSE 0

CheckSplitBilling(invoice_data, store, failing) ==
  IF ~invoice_data.mapping THEN 0
  ELSE
    LET vendor_name == Lower(invoice_data.vendor_name)
        amount == InvoiceAmount(invoice_data)
        Related(inv) == /\ Ilike(inv.vendor_name, vendor_name)
                        /\ inv.invoice_date = invoice_data.invoice_date
                        /\ inv.status = "processed"
        related_invoices == SelectSeq(store, Related)
        amounts == [i \in DOMAIN related_invoices |-> RecordAmount(related_invoices[i])]
    IN  IF vendor_name = <<>> \/ amount = 0 \/ invoice_data.invoice_date = "" THEN 0
        ELSE IF "split" \in failing THEN 0
        ELSE IF Len(related_invoices) < 2 THEN 0
        ELSE IF SumSeq(amounts) > ApprovalThreshold THEN 90
        ELSE IF Cardinality({amounts[i] : i \in DOMAIN amounts}) = 1 THEN 80
        ELSE 0

CountRecentVendorInvoices(vendor_name, store, failing) ==
  IF "recent" \in failing THEN 0
  ELSE Cardinality({i \in DOMAIN store :
                      /\ Ilike(store[i].vendor_name, vendor_name)
                      /\ store[i].recent
                      /\ store[i].status = "processed"})

\* faulty variant: a failing count query zeroes the whole pattern score
CheckSuspiciousPatternsZeroOnFailure(invoice_data, store, failing) ==
  IF ~invoice_data.mapping THEN 0
  ELSE
    LET amount == InvoiceAmount(invoice_data)
        round == IF amount # 0 /\ RoundAmounts(FloatStr(amount)) THEN 30 ELSE 0
        sequential == IF SequentialInvoices(invoice_data.invoice_number) THEN 40 ELSE 0
        unusual == IF amount = 0 THEN 0
                   ELSE IF amount < SuspiciousAmountMin THEN 50
                   ELSE IF amount > SuspiciousAmountMax THEN 30
                   ELSE 0
        frequent ==
          IF invoice_data.vendor_name # <<>>
             /\ CountRecentVendorInvoices(invoice_data.vendor_name, store, failing)
                  > HighFrequencyVendors
            THEN 40 ELSE 0
    IN  IF invoice_data.vendor_name # <<>> /\ "recent" \in failing THEN 0
        ELSE Min(round + sequential + unusual + frequent, 100)

CheckSuspiciousPatterns(invoice_data, store, failing) ==
  IF ~invoice_data.mapping THEN 0
  ELSE
    LET amount == InvoiceAmount(invoice_data)
        round == IF amount # 0 /\ RoundAmounts(FloatStr(amount)) THEN 30 ELSE 0
        sequential == IF SequentialInvoices(invoice_data.invoice_number) THEN 40 ELSE 0
        unusual == IF amount = 0 THEN 0
                   ELSE IF amount < SuspiciousAmountMin THEN 50
                   ELSE IF amount > SuspiciousAmountMax THEN 30
                   ELSE 0
        frequent ==
          IF invoice_data.vendor_name # <<>>
             /\ CountRecentVendorInvoices(invoice_data.vendor_name, store, failing)
                  > HighFrequencyVendors
            THEN 40 ELSE 0
    IN  Min(round + sequential + unusual + frequent, 100)

\* faulty variant: a missing category is not counted
CalculateConfidenceNoCategory(invoice_data) ==
  IF ~invoice_data.mapping THEN 50
  ELSE
    LET missing_fields ==
          (IF invoice_data.vendor_name = <<>> THEN 1 ELSE 0)
          + (IF invoice_data.amount = 0 THEN 1 ELSE 0)
          + (IF invoice_data.invoice_date = "" THEN 1 ELSE 0)
          + (IF invoice_data.invoice_number = <<>> THEN 1 ELSE 0)
        c1 == 100 - missing_fields * 10
        c2 == IF invoice_data.description = <<>> THEN c1 - 10 ELSE c1
    IN  Max(c2, 0)

CalculateConfidence(invoice_data) ==
  IF ~invoice_data.mapping THEN 50
  ELSE
    LET missing_fields ==
          (IF invoice_data.vendor_name = <<>> THEN 1 ELSE 0)
          + (IF invoice_data.amount = 0 THEN 1 ELSE 0)
          + (IF invoice_data.invoice_date = "" THEN 1 ELSE 0)
          + (IF invoice_data.invoice_number = <<>> THEN 1 ELSE 0)
        c1 == 100 - missing_fields * 10
        c2 == IF invoice_data.description = <<>> THEN c1 - 10 ELSE c1
        c3 == IF invoice_data.category = "" THEN c2 - 10 ELSE c2
    IN  Max(c3, 0)

(***************************************************************************)
(* analyze_invoice: the verdict.                                           *)
(***************************************************************************)
\* faulty variant: the high breakpoint taken inclusively
RiskLevelInclusive(overall_score) ==
  IF overall_score >= 80 THEN "high"
  ELSE IF overall_score > 50 THEN "medium"
  ELSE "low"

RiskLevel(overall_score) ==
  IF overall_score > 80 THEN "high"
  ELSE IF overall_score > 50 THEN "medium"
  ELSE "low"

\* faulty variant: the scores blended into their average
OverallScoreAverage(scores) == SumSeq(scores) \div Len(scores)

OverallScore(scores) == MaxSeq(scores)

\* faulty variant: a ghost_vendor score equal to its threshold raises the flag
FlagsInclusive(duplicate_score, inflation_score, ghost_vendor_score, split_billing_score, pattern_score) ==
  (IF duplicate_score > ThresholdDuplicate THEN <<"duplicate_claim">> ELSE <<>>)
  \o (IF inflation_score > ThresholdInflation THEN <<"inflated_expense">> ELSE <<>>)
  \o (IF ghost_vendor_score >= ThresholdGhostVendor THEN <<"ghost_vendor">> ELSE <<>>)
  \o (IF split_billing_score > ThresholdSplitBilling THEN <<"split_billing">> ELSE <<>>)
  \o (IF pattern_score > ThresholdSuspiciousPatterns THEN <<"suspicious_patterns">>
      ELSE <<>>)

\* faulty variant: the inflation flag follows the inflation ratio, which is
\* over 1.5 exactly when the score is positive
FlagsInflationOnRatio(duplicate_score, inflation_score, ghost_vendor_score, split_billing_score, pattern_score) ==
  (IF duplicate_score > ThresholdDuplicate THEN <<"duplicate_claim">> ELSE <<>>)
  \o (IF inflation_score > 0 THEN <<"inflated_expense">> ELSE <<>>)
  \o (IF ghost_vendor_score > ThresholdGhostVendor THEN <<"ghost_vendor">> ELSE <<>>)
  \o (IF split_billing_score > ThresholdSplitBilling THEN <<"split_billing">> ELSE <<>>)
  \o (IF pattern_score > ThresholdSuspiciousPatterns THEN <<"suspicious_patterns">>
      ELSE <<>>)

\* faulty variant: a split_billing score equal to its threshold raises the flag
FlagsSplitInclusive(duplicate_score, inflation_score, ghost_vendor_score, split_billing_score, pattern_score) ==
  (IF duplicate_score > ThresholdDuplicate THEN <<"duplicate_claim">> ELSE <<>>)
  \o (IF inflation_score > ThresholdInflation THEN <<"inflated_expense">> ELSE <<>>)
  \o (IF ghost_vendor_score > ThresholdGhostVendor THEN <<"ghost_vendor">> ELSE <<>>)
  \o (IF split_billing_score >= ThresholdSplitBilling THEN <<"split_billing">> ELSE <<>>)
  \o (IF pattern_score > ThresholdSuspiciousPatterns THEN <<"suspicious_patterns">>
      ELSE <<>>)

\* faulty variant: the suspicious_patterns flag is raised by any positive score
FlagsAnyPattern(duplicate_score, inflation_score, ghost_vendor_score, split_billing_score, pattern_score) ==
  (IF duplicate_score > ThresholdDuplicate THEN <<"duplicate_claim">> ELSE <<>>)
  \o (IF inflation_score > ThresholdInflation THEN <<"inflated_expense">> ELSE <<>>)
  \o (IF ghost_vendor_score > ThresholdGhostVendor THEN <<"ghost_vendor">> ELSE <<>>)
  \o (IF split_billing_score > ThresholdSplitBilling THEN <<"split_billing">> ELSE <<>>)
  \o (IF pattern_score > 0 THEN <<"suspicious_patterns">> ELSE <<>>)

Flags(duplicate_score, inflation_score, ghost_vendor_score, split_billing_score, pattern_score) ==
  (IF duplicate_score > ThresholdDuplicate THEN <<"duplicate_claim">> ELSE <<>>)
  \o (IF inflation_score > ThresholdInflation THEN <<"inflated_expense">> ELSE <<>>)
  \o (IF ghost_vendor_score > ThresholdGhostVendor THEN <<"ghost_vendor">> ELSE <<>>)
  \o (IF split_billing_score > ThresholdSplitBilling THEN <<"split_billing">> ELSE <<>>)
  \o (IF pattern_score > ThresholdSuspiciousPatterns THEN <<"suspicious_patterns">>
      ELSE <<>>)

\* faulty variant: the handler returns the analysis as far as it was filled in
FailureVerdictPartial ==
  [overall_score |-> 0, flags |-> <<>>, confidence |-> 50,
   risk_level |-> "low",
   details |-> [duplicate |-> 0, inflation |-> 0, ghost_vendor |-> 0,
                split_billing |-> 0, pattern |-> 0, error |-> TRUE]]

\* the verdict of the top-level exception handler
FailureVerdict ==
  [overall_score |-> 0, flags |-> <<"analysis_failed">>, confidence |-> 0,
   risk_level |-> "unknown",
   details |-> [duplicate |-> 0, inflation |-> 0, ghost_vendor |-> 0,
                split_billing |-> 0, pattern |-> 0, error |-> TRUE]]

\* faulty variant: a query exception escapes its signal check
RaisesToTopLevelUncaught(invoice_data, failing) ==
  ~invoice_data.mapping \/ failing # {}

\* logger.info(..., invoice_number=invoice_data.get('invoice_number'), ...) is
\* outside every inner try: on an invoice_data without .get it raises to the
\* top-level handler; a raising query never does, each is inside an inner try
RaisesToTopLevel(invoice_data, failing) == ~invoice_data.mapping

AnalyzeInvoiceResult(invoice_data, store, failing) ==
  LET duplicate_score == CheckDuplicateClaims(invoice_data, store, failing)
      inflation_score == CheckInflatedExpenses(invoice_data, store, failing)
      ghost_vendor_score == CheckGhostVendor(invoice_data, store, failing)
      split_billing_score == CheckSplitBilling(invoice_data, store, failing)
      pattern_score == CheckSuspiciousPatterns(invoice_data, store, failing)
      overall == OverallScore(<<duplicate_score, inflation_score, ghost_vendor_score,
                                split_billing_score, pattern_score>>)
  IN  IF RaisesToTopLevel(invoice_data, failing) THEN FailureVerdict
      ELSE [overall_score |-> overall,
            flags |-> Flags(duplicate_score, inflation_score, ghost_vendor_score,
                            split_billing_score, pattern_score),
            confidence |-> CalculateConfidence(invoice_data),
            risk_level |-> RiskLevel(overall),
            details |-> [duplicate |-> duplicate_score, inflation |-> inflation_score,
                         ghost_vendor |-> ghost_vendor_score,
                         split_billing |-> split_billing_score,
                         pattern |-> pattern_score, error |-> FALSE]]

\* analyze_invoice, every query answering, once _check_duplicate_claims has
\* come back with max_similarity
AnalyzeInvoiceWithSimilarity(invoice_data, store, max_similarity) ==
  LET duplicate_score == max_similarity
      inflation_score == CheckInflatedExpenses(invoice_data, store, {})
      ghost_vendor_score == CheckGhostVendor(invoice_data, store, {})
      split_billing_score == CheckSplitBilling(invoice_data, store, {})
      pattern_score == CheckSuspiciousPatterns(invoice_data, store, {})
      overall == OverallScore(<<duplicate_score, inflation_score, ghost_vendor_score,
                                split_billing_score, pattern_score>>)
  IN  [overall_score |-> overall,
       flags |-> Flags(duplicate_score, inflation_score, ghost_vendor_score,
                       split_billing_score, pattern_score),
       confidence |-> CalculateConfidence(invoice_data),
       risk_level |-> RiskLevel(overall),
       details |-> [duplicate |-> duplicate_score, inflation |-> inflation_score,
                    ghost_vendor |-> ghost_vendor_score,
                    split_billing |-> split_billing_score,
                    pattern |-> pattern_score, error |-> FALSE]]

(***************************************************************************)
(* Field Extractor (src/backend/services/nlp_extractor.py).                *)
(* A raw text is a sequence of one-character strings; an Optional value is *)
(* a sequence of length at most one (<<>> is None); the mapping returned   *)
(* is a function from the keys that are present.  Amounts are floats with  *)
(* at most three decimals, in thousandths.                                 *)
(***************************************************************************)
WhiteSpace == {" ", "\n", "\t"}

Letters == {UpperCase[i] : i \in DOMAIN UpperCase} \cup {LowerCase[i] : i \in DOMAIN LowerCase}

\* the characters _clean_text keeps: \w \s . , - $ @ # : ( )
CleanChars ==
  Letters \cup Digits \cup WhiteSpace \cup {"_", ".", ",", "-", "$", "@", "#", ":", "(", ")"}

\* first index from i on whose character is not in S
RECURSIVE SkipWhile(_, _, _)
SkipWhile(text, i, S) ==
  IF i <= Len(text) /\ text[i] \in S THEN SkipWhile(text, i + 1, S) ELSE i

\* str.strip()
Strip(text) ==
  LET first == SkipWhile(text, 1, WhiteSpace)
      Last[j \in 0..Len(text)] ==
        IF j = 0 \/ text[j] \notin WhiteSpace THEN j ELSE Last[j - 1]
  IN  SubSeq(text, first, Last[Len(text)])

\* re.sub(r'\s+', ' ', text)
CollapseWhiteSpace(text) ==
  LET Keep(i) == text[i] \notin WhiteSpace \/ i = 1 \/ text[i - 1] \notin WhiteSpace
      Out[i \in 0..Len(text)] ==
        IF i = 0 THEN <<>>
        ELSE IF ~Keep(i) THEN Out[i - 1]
        ELSE Out[i - 1] \o <<IF text[i] \in WhiteSpace THEN " " ELSE text[i]>>
  IN  Out[Len(text)]

CleanText(text) ==
  LET Kept(c) == c \in CleanChars
  IN  Strip(SelectSeq(CollapseWhiteSpace(text), Kept))

\* float() of a matched [0-9,]+\.?[0-9]* group after replace(',', ''):
\* <<>> for ValueError, else <<thousandths>>
DigitValue(c) == CHOOSE d \in 0..9 : DigitChar(d) = c

RECURSIVE IntOf(_)
IntOf(digits) ==
  IF digits = <<>> THEN 0
  ELSE 10 * IntOf(SubSeq(digits, 1, Len(digits) - 1)) + DigitValue(digits[Len(digits)])

Float(group) ==
  LET NotComma(c) == c # ","
      s == SelectSeq(group, NotComma)
      dot == SkipWhile(s, 1, Digits)
      whole == SubSeq(s, 1, dot - 1)
      frac == SubSeq(s, dot + 1, Len(s))
      padded == SubSeq(frac \o <<"0", "0", "0">>, 1, 3)
  IN  IF whole = <<>> /\ frac = <<>> THEN <<>>
      ELSE <<1000 * IntOf(whole) + IntOf(padded)>>

NumberChars == Digits \cup {","}

\* end (exclusive) of a match of [0-9,]+\.?[0-9]* at i, 0 when there is none
NumberEnd(text, i) ==
  IF i > Len(text) \/ text[i] \notin NumberChars THEN 0
  ELSE LET j == SkipWhile(text, i, NumberChars)
           k == IF j <= Len(text) /\ text[j] = "." THEN j + 1 ELSE j
       IN  SkipWhile(text, k, Digits)

\* every match of \$?([0-9,]+\.?[0-9]*) kept by 0 < amount < 1000000
RECURSIVE ExtractAllAmountsFrom(_, _)
ExtractAllAmountsFrom(text, i) ==
  IF i > Len(text) THEN <<>>
  ELSE
    LET start == IF text[i] = "$" /\ NumberEnd(text, i + 1) > 0 THEN i + 1 ELSE i
        end == NumberEnd(text, start)
        amount == Float(SubSeq(text, start, end - 1))
    IN  IF end = 0 THEN ExtractAllAmountsFrom(text, i + 1)
        ELSE (IF amount # <<>> /\ 0 < amount[1] /\ amount[1] < 1000000000
                THEN amount ELSE <<>>)
             \o ExtractAllAmountsFrom(text, end)

ExtractAllAmounts(text) == ExtractAllAmountsFrom(text, 1)

\* _extract_amount: the largest of all the amounts in the text
ExtractAmount(text) ==
  LET amounts == ExtractAllAmounts(text)
  IN  IF amounts # <<>> THEN <<MaxSeq(amounts)>> ELSE <<>>

\* end (exclusive) of a case-insensitive match of word at i, 0 when none
WordEnd(text, i, word) ==
  IF /\ i + Len(word) - 1 <= Len(text)
     /\ \A j \in 1..Len(word) : LowerChar(text[i + j - 1]) = word[j]
    THEN i + Len(word)
    ELSE 0

\* the same for the words of a label, \s* between them
RECURSIVE LabelEnd(_, _, _)
LabelEnd(text, i, words) ==
  LET e == WordEnd(text, i, Head(words))
  IN  IF e = 0 \/ Len(words) = 1 THEN e
      ELSE LabelEnd(text, SkipWhile(text, e, WhiteSpace), Tail(words))

\* position after an optional c at i
SkipOptional(text, i, c) == IF i <= Len(text) /\ text[i] = c THEN i + 1 ELSE i

\* group 1 of label\s*:?\s*\$?([0-9,]+\.?[0-9]*) matched at i, as <<group>>
LabeledNumberAt(text, i, words) ==
  LET e == LabelEnd(text, i, words)
      colon == SkipOptional(text, SkipWhile(text, e, WhiteSpace), ":")
      start == SkipOptional(text, SkipWhile(text, colon, WhiteSpace), "$")
      end == NumberEnd(text, start)
  IN  IF e = 0 \/ end = 0 THEN <<>> ELSE <<SubSeq(text, start, end - 1)>>

\* group 1 of \$\s*([0-9,]+\.?[0-9]*) matched at i
DollarNumberAt(text, i) ==
  LET start == SkipWhile(text, i + 1, WhiteSpace)
      end == NumberEnd(text, start)
  IN  IF text[i] # "$" \/ end = 0 THEN <<>> ELSE <<SubSeq(text, start, end - 1)>>

\* re.search: the match at the leftmost position, <<>> when there is none
RECURSIVE SearchLabeledNumber(_, _, _)
SearchLabeledNumber(text, i, words) ==
  IF i > Len(text) THEN <<>>
  ELSE IF LabeledNumberAt(text, i, words) # <<>> THEN LabeledNumberAt(text, i, words)
  ELSE SearchLabeledNumber(text, i + 1, words)

RECURSIVE SearchDollarNumber(_, _)
SearchDollarNumber(text, i) ==
  IF i > Len(text) THEN <<>>
  ELSE IF DollarNumberAt(text, i) # <<>> THEN DollarNumberAt(text, i)
  ELSE SearchDollarNumber(text, i + 1)

\* the first pattern of the list that matches and whose group is a float
RECURSIVE FirstLabeledFloat(_, _)
FirstLabeledFloat(text, labels) ==
  IF labels = <<>> THEN <<>>
  ELSE LET match == SearchLabeledNumber(text, 1, Head(labels))
       IN  IF match # <<>> /\ Float(match[1]) # <<>> THEN Float(match[1])
           ELSE FirstLabeledFloat(text, Tail(labels))

WordTotal == <<"t", "o", "t", "a", "l">>
WordGrand == <<"g", "r", "a", "n", "d">>
WordAmount == <<"a", "m", "o", "u", "n", "t">>
WordDue == <<"d", "u", "e">>
WordSubtotal == <<"s", "u", "b", "t", "o", "t", "a", "l">>
WordTax == <<"t", "a", "x">>
WordVat == <<"v", "a", "t">>
WordSales == <<"s", "a", "l", "e", "s">>

\* self.patterns['tax']
TaxPatterns == <<<<WordTax>>, <<WordVat>>, <<WordSales, WordTax>>>>

\* total_patterns of _extract_total_amount
TotalPatterns == <<<<WordTotal>>, <<WordGrand, WordTotal>>, <<WordAmount, WordDue>>>>

\* the labelled patterns of self.patterns['amount']; its last one is the bare $
AmountPatterns == <<<<WordTotal>>, <<WordAmount>>, <<WordSubtotal>>, <<WordGrand, WordTotal>>>>

ExtractTaxAmount(text) == FirstLabeledFloat(text, TaxPatterns)

ExtractTotalAmount(text) == FirstLabeledFloat(text, TotalPatterns)

\* the priority chain of self.patterns['amount'], which no method applies
LabeledAmount(text) ==
  LET labelled == FirstLabeledFloat(text, AmountPatterns)
      dollar == SearchDollarNumber(text, 1)
  IN  IF labelled # <<>> THEN labelled
      ELSE IF dollar # <<>> THEN Float(dollar[1])
      ELSE <<>>

\* characters that _clean_text removes before any pattern is tried
EuroSign == "EURO SIGN"
PoundSign == "POUND SIGN"

\* _extract_currency: the first pattern found decides; the branch taken for
\* it tests the pattern's own source text, and '$' occurs in the source of
\* the CAD and AUD patterns
ExtractCurrency(text) ==
  LET Has(s) == Contains(Lower(text), s)
  IN  IF Has(<<"u", "s", "d">>) \/ Has(<<"u", "s", "$">>) \/ Has(<<"$">>) THEN "USD"
      ELSE IF Has(<<"e", "u", "r">>) \/ Has(<<EuroSign>>) THEN "EUR"
      ELSE IF Has(<<"g", "b", "p">>) \/ Has(<<PoundSign>>) THEN "GBP"
      ELSE IF Has(<<"c", "a", "d">>) \/ Has(<<"c", "$">>) THEN "USD"
      ELSE IF Has(<<"a", "u", "d">>) \/ Has(<<"a", "$">>) THEN "USD"
      ELSE "USD"

\* [A-Z0-9\-] under re.IGNORECASE
InvoiceNumberChars == Letters \cup Digits \cup {"-"}

\* group 1 of label\s*#?\s*:?\s*([A-Z0-9\-]+) matched at i
InvoiceNumberAt(text, i, word) ==
  LET e == WordEnd(text, i, word)
      hash == SkipOptional(text, SkipWhile(text, e, WhiteSpace), "#")
      colon == SkipOptional(text, SkipWhile(text, hash, WhiteSpace), ":")
      start == SkipWhile(text, colon, WhiteSpace)
      end == SkipWhile(text, start, InvoiceNumberChars)
  IN  IF e = 0 \/ end = start THEN <<>> ELSE <<SubSeq(text, start, end - 1)>>

\* group 1 of #\s*([A-Z0-9\-]+) matched at i
HashNumberAt(text, i) ==
  LET start == SkipWhile(text, i + 1, WhiteSpace)
      end == SkipWhile(text, start, InvoiceNumberChars)
  IN  IF text[i] # "#" \/ end = start THEN <<>> ELSE <<SubSeq(text, start, end - 1)>>

RECURSIVE SearchInvoiceNumber(_, _, _)
SearchInvoiceNumber(text, i, word) ==
  IF i > Len(text) THEN <<>>
  ELSE IF InvoiceNumberAt(text, i, word) # <<>> THEN InvoiceNumberAt(text, i, word)
  ELSE SearchInvoiceNumber(text, i + 1, word)

RECURSIVE SearchHashNumber(_, _)
SearchHashNumber(text, i) ==
  IF i > Len(text) THEN <<>>
  ELSE IF HashNumberAt(text, i) # <<>> THEN HashNumberAt(text, i)
  ELSE SearchHashNumber(text, i + 1)

\* the labels of self.patterns['invoice_number'] before the bare #
InvoiceNumberLabels == <<<<"i", "n", "v", "o", "i", "c", "e">>, <<"i", "n", "v">>, <<"b", "i", "l", "l">>, <<"r", "e", "c", "e", "i", "p", "t">>>>

RECURSIVE FirstInvoiceNumber(_, _)
FirstInvoiceNumber(text, labels) ==
  IF labels = <<>> THEN SearchHashNumber(text, 1)
  ELSE IF SearchInvoiceNumber(text, 1, Head(labels)) # <<>>
    THEN SearchInvoiceNumber(text, 1, Head(labels))
  ELSE FirstInvoiceNumber(text, Tail(labels))

ExtractInvoiceNumber(text) ==
  LET match == FirstInvoiceNumber(text, InvoiceNumberLabels)
  IN  IF match = <<>> THEN <<>> ELSE <<Strip(match[1])>>

\* [A-Za-z\s&.,]
VendorChars == Letters \cup WhiteSpace \cup {"&", ".", ","}

\* group 1 of label\s*:?\s*([A-Za-z\s&.,]+) matched at i: the group starts
\* after the white space when a letter or & . , follows it; otherwise the
\* match gives the last white space back to the group
VendorAt(text, i, words) ==
  LET e == LabelEnd(text, i, words)
      a == SkipWhile(text, e, WhiteSpace)
      colon == SkipOptional(text, a, ":")
      start == SkipWhile(text, colon, WhiteSpace)
      end == SkipWhile(text, start, VendorChars)
  IN  IF e = 0 THEN <<>>
      ELSE IF end > start THEN <<SubSeq(text, start, end - 1)>>
      ELSE IF start > colon THEN <<SubSeq(text, start - 1, start - 1)>>
      ELSE IF a > e THEN <<SubSeq(text, a - 1, a - 1)>>
      ELSE <<>>

RECURSIVE SearchVendor(_, _, _)
SearchVendor(text, i, words) ==
  IF i > Len(text) THEN <<>>
  ELSE IF VendorAt(text, i, words) # <<>> THEN VendorAt(text, i, words)
  ELSE SearchVendor(text, i + 1, words)

\* self.vendor_patterns
VendorPatterns == <<<<<<"f", "r", "o", "m">>>>, <<<<"v", "e", "n", "d", "o", "r">>>>, <<<<"c", "o", "m", "p", "a", "n", "y">>>>, <<<<"b", "i", "l", "l">>, <<"t", "o">>>>>>

RECURSIVE FirstVendor(_, _)
FirstVendor(text, labels) ==
  IF labels = <<>> THEN <<>>
  ELSE IF SearchVendor(text, 1, Head(labels)) # <<>> THEN SearchVendor(text, 1, Head(labels))
  ELSE FirstVendor(text, Tail(labels))

ExtractVendorName(text) ==
  LET match == FirstVendor(text, VendorPatterns)
      vendor == CollapseWhiteSpace(Strip(match[1]))
  IN  IF match = <<>> THEN <<>> ELSE <<SubSeq(vendor, 1, Min(100, Len(vendor)))>>

\* [A-Za-z\s]
LineItemChars == Letters \cup WhiteSpace

\* the groups of (\d+)\s+([A-Za-z\s]+)\s+\$?([0-9,]+\.?[0-9]*) matched at i,
\* <<>> when it does not match there.  Group 2 is greedy and gives its last
\* whitespace back to the \s+ behind it; with no letter behind the quantity
\* the two \s+ and group 2 share a run of three whitespaces or more
LineItemAt(line, i) ==
  LET e == SkipWhile(line, i, Digits)
      p == SkipWhile(line, e, WhiteSpace)
      q == SkipWhile(line, p, LineItemChars)
      start == SkipOptional(line, q, "$")
      end == NumberEnd(line, start)
      spaced == IF q > p THEN line[q - 1] \in WhiteSpace ELSE p - e >= 3
  IN  IF e = i \/ p = e \/ ~spaced \/ end = 0 THEN <<>>
      ELSE <<[quantity |-> SubSeq(line, i, e - 1),
              description |-> IF q > p THEN SubSeq(line, p, q - 2) ELSE <<" ">>,
              amount |-> SubSeq(line, start, end - 1)]>>

\* re.search: the match at the leftmost position that has one
RECURSIVE SearchLineItem(_, _)
SearchLineItem(line, i) ==
  IF i > Len(line) THEN <<>>
  ELSE IF LineItemAt(line, i) # <<>> THEN LineItemAt(line, i)
  ELSE SearchLineItem(line, i + 1)

\* str.split('\n')
RECURSIVE SplitLines(_, _)
SplitLines(text, line) ==
  IF text = <<>> THEN <<line>>
  ELSE IF Head(text) = "\n" THEN <<line>> \o SplitLines(Tail(text), <<>>)
  ELSE SplitLines(Tail(text), Append(line, Head(text)))

\* the entry of one line: none without a match or when float() raises
LineItemOf(line) ==
  LET match == SearchLineItem(line, 1)
  IN  IF match = <<>> \/ Float(match[1].amount) = <<>> THEN <<>>
      ELSE <<[quantity |-> IntOf(match[1].quantity),
              description |-> Strip(match[1].description),
              amount |-> Float(match[1].amount)[1]]>>

RECURSIVE LineItemsOf(_)
LineItemsOf(lines) ==
  IF lines = <<>> THEN <<>> ELSE LineItemOf(Head(lines)) \o LineItemsOf(Tail(lines))

\* _extract_line_items: one search per line of the text it is given
ExtractLineItems(text) == LineItemsOf(SplitLines(text, <<>>))

\* the sub-extractions of extract_invoice_data that the model follows
ExtractionSites ==
  {"invoice_number", "vendor_name", "amount", "tax_amount", "total_amount", "currency",
   "line_items"}

EmptyMapping == <<>>

\* the dictionary of lines 97-121, every value still Optional
ExtractedFields(cleaned_text) ==
  LET amount == ExtractAmount(cleaned_text)
      tax == ExtractTaxAmount(cleaned_text)
      total == ExtractTotalAmount(cleaned_text)
      derive == /\ (total = <<>> \/ total[1] = 0)
                /\ amount # <<>> /\ amount[1] # 0
                /\ tax # <<>> /\ tax[1] # 0
  IN  [invoice_number |-> ExtractInvoiceNumber(cleaned_text),
       vendor_name |-> ExtractVendorName(cleaned_text),
       amount |-> amount,
       tax_amount |-> tax,
       total_amount |-> IF derive THEN <<amount[1] + tax[1]>> ELSE total,
       currency |-> <<ExtractCurrency(cleaned_text)>>,
       line_items |-> <<ExtractLineItems(cleaned_text)>>]

\* {k: v for k, v in invoice_data.items() if v is not None}
DropNone(fields) ==
  [k \in {f \in DOMAIN fields : fields[f] # <<>>} |-> fields[k][1]]

\* faulty variant: the text is not tested for being empty or blank
ExtractInvoiceDataNoBlankCheck(text, raising) ==
  IF raising # {} THEN EmptyMapping
  ELSE DropNone(ExtractedFields(CleanText(text)))

\* faulty variant: a field whose sub-extraction raised is left out and the
\* other fields are returned
ExtractInvoiceDataPartial(text, raising) ==
  IF Strip(text) = <<>> THEN EmptyMapping
  ELSE LET fields == ExtractedFields(CleanText(text))
       IN  DropNone([k \in DOMAIN fields |-> IF k \in raising THEN <<>> ELSE fields[k]])

\* extract_invoice_data(text) when the sub-extractions in raising raise
ExtractInvoiceDataResult(text, raising) ==
  IF Strip(text) = <<>> THEN EmptyMapping
  ELSE IF raising # {} THEN EmptyMapping
  ELSE DropNone(ExtractedFields(CleanText(text)))

\* whether an exception leaves extract_invoice_data: the try block spans the
\* whole body and its handler returns {}
ExtractRaises(text, raising) == FALSE

(***************************************************************************)
(* validate_fraud_analysis (src/backend/utils/validation.py).  The verdict *)
(* of the model is always a mapping with its required fields, a numeric    *)
(* score and a list of flags; the tests left are those on the values.      *)
(***************************************************************************)
ValidRiskLevels == {"low", "medium", "high", "unknown"}

ValidateFraudAnalysis(analysis) ==
  /\ 0 <= analysis.overall_score
  /\ analysis.overall_score <= 100
  /\ analysis.risk_level \in ValidRiskLevels

(***************************************************************************)
(* Inputs: the texts, amounts and rows the model draws from.               *)
(***************************************************************************)
TestVendor == <<"T","e","s","t"," ","V","e","n","d","o","r">>
Acme == <<"A","c","m","e">>
AcmeLLC == <<"A","c","m","e"," ","L","L","C">>
Al == <<"A","l">>
OfficeSupplies == <<"o","f","f","i","c","e"," ","s","u","p","p","l","i","e","s">>
SequentialNumber == <<"I","N","V","-","2","0","2","4","-","0","0","9","9">>

InvoiceVendors == {<<>>, TestVendor, Acme, AcmeLLC, Al}

\* <<amount, total_amount>> of an extracted invoice
InvoiceAmounts ==
  { <<0, 0>>, <<5, 0>>, <<200000, 0>>, <<200005, 0>>, <<12000000, 0>>,
    <<12000000, 200000>> }

InvoiceDates == {"", "2024-01-15", "2024-02-20"}

InvoiceInputs ==
  { [mapping |-> TRUE, vendor_name |-> v, amount |-> a[1], total_amount |-> a[2],
     invoice_date |-> d, invoice_number |-> n, description |-> t, category |-> c] :
      v \in InvoiceVendors, a \in InvoiceAmounts, d \in InvoiceDates,
      n \in {<<>>, SequentialNumber}, t \in {<<>>, OfficeSupplies},
      c \in {"", "travel"} }

\* an invoice_data that is no mapping (None)
NotAMapping ==
  [mapping |-> FALSE, vendor_name |-> <<>>, amount |-> 0, total_amount |-> 0,
   invoice_date |-> "", invoice_number |-> <<>>, description |-> <<>>,
   category |-> ""]

\* <<amount, total_amount>> of a stored row, Numeric(10, 2)
RecordAmounts == { <<200000, 200000>>, <<3000000, 0>>, <<100000, 100000>> }

StoredRow(a, st) ==
  [vendor_name |-> AcmeLLC, amount |-> a[1], total_amount |-> a[2],
   invoice_date |-> "2024-01-15", category |-> "travel",
   description |-> OfficeSupplies, status |-> st, recent |-> TRUE]

Records ==
  {StoredRow(a, "processed") : a \in RecordAmounts}
    \cup {StoredRow(<<200000, 200000>>, "pending")}

\* lines of OCR text
TextLines ==
  { <<"T", "o", "t", "a", "l", ":", " ", "$", "1", ",", "2", "5", "0", ".", "0", "0">>,
    <<"I", "n", "v", "o", "i", "c", "e", " ", "#", "I", "N", "V", "-", "2", "0", "2", "4", "-", "0", "0", "9", "9">>,
    <<"V", "e", "n", "d", "o", "r", ":", " ", "A", "c", "m", "e", " ", "L", "L", "C">>,
    <<"A", "m", "o", "u", "n", "t", ":", " ", "3", "0", "0">>,
    <<"T", "a", "x", ":", " ", "3", "0", ".", "5", "0">>,
    <<" ", " ">>,
    <<"F", "r", "o", "m", ":", " ", "1", "2", " ", "E", "U", "R">> }

\* the raw texts: up to MaxLines lines, a newline between two of them
RECURSIVE JoinLines(_)
JoinLines(lines) ==
  IF lines = <<>> THEN <<>>
  ELSE IF Len(lines) = 1 THEN lines[1]
  ELSE lines[1] \o <<"\n">> \o JoinLines(Tail(lines))

Texts == {JoinLines(lines) : lines \in UNION {[1..n -> TextLines] : n \in 0..MaxLines}}

\* lines of an itemised invoice: two line items, currency codes, plain words
ItemLines ==
  { <<"2", " ", "W", "i", "d", "g", "e", "t", "s", " ", "$", "1", "0", ".", "0", "0">>,
    <<"3", " ", "G", "a", "d", "g", "e", "t", "s", " ", "5", ".", "5", "0">>,
    <<"P", "a", "i", "d", " ", "i", "n", " ", "C", "A", "D">>,
    <<"P", "a", "i", "d", " ", "i", "n", " ", "A", "U", "D">>,
    <<"T", "h", "a", "n", "k", " ", "y", "o", "u">>,
    <<"S", "u", "m", " ", "4", "0", " ", "E", "U", "R">> }

ItemTexts == {JoinLines(lines) : lines \in UNION {[1..n -> ItemLines] : n \in 0..MaxLines}}

\* no sub-extraction raises, or one of them does
ExtractFailureModes == {{}, {"amount"}, {"currency"}}

AcmeInc == <<"A","c","m","e"," ","I","n","c">>

\* n rows alike
Copies(row, n) == [i \in 1..n |-> row]

\* stores with a history: the vendor's rows up to and over the frequency
\* limit, one of them pending or older than thirty days, and one row of a
\* vendor whose name differs by a stop word only
PreparedStores ==
  LET row == StoredRow(<<150000, 150000>>, "processed")
      pending == StoredRow(<<150000, 150000>>, "pending")
      old == [row EXCEPT !.recent = FALSE]
      inc == [StoredRow(<<200250, 200250>>, "processed") EXCEPT !.vendor_name = AcmeInc]
  IN  { <<>>,
        Copies(row, HighFrequencyVendors),
        Copies(row, HighFrequencyVendors + 1),
        Append(Copies(row, HighFrequencyVendors), pending),
        Append(Copies(row, HighFrequencyVendors), old),
        <<inc>>,
        <<StoredRow(<<3000000, 0>>, "processed"), StoredRow(<<100000, 100000>>, "processed")>> }

\* the invoices of InvoiceInputs and one of 200.25
HistoryInputs ==
  InvoiceInputs \cup
    { [mapping |-> TRUE, vendor_name |-> Acme, amount |-> 200250, total_amount |-> 0,
       invoice_date |-> "2024-01-15", invoice_number |-> <<>>,
       description |-> OfficeSupplies, category |-> c] : c \in {"", "travel"} }

QuerySites == {"duplicate", "category", "vendor_history", "split", "recent"}

\* every query answers, or the query interface is down
FailureModes == {{}, QuerySites}

\* every query answers, one query raises, or the query interface is down
HistoryFailureModes == {{}} \cup {{q} : q \in QuerySites} \cup {QuerySites}

(***************************************************************************)
(* State.                                                                  *)
(***************************************************************************)
VARIABLES
  invoices,        \* the invoices table, a sequence of rows by id
  phase,           \* "idle", or "returned" once analyze_invoice has returned
  invoice_data,    \* the argument of the last analyze_invoice call
  failing,         \* the query sites that raised during that call
  raised,          \* whether an exception reached its top-level handler
  fraud_analysis,  \* the verdict it returned
  text,            \* the raw text handed to extract_invoice_data
  extracted,       \* the mapping extract_invoice_data returned
  request,         \* the file process_invoice works on, the row being reprocessed
  vectorizer,      \* the idf weights the shared TfidfVectorizer was last fitted to
  calls,           \* the analyze_invoice calls that run concurrently
  audit_log,       \* the audit_logs table, a sequence of rows
  batch            \* the paths and results of a batch_process_invoices call

vars ==
  <<invoices, phase, invoice_data, failing, raised, fraud_analysis, text, extracted,
    request, vectorizer, calls, audit_log, batch>>

\* no process_invoice call under way
NoRequest ==
  [file_path |-> 0, invoice_id |-> 0, caller |-> "none", error |-> "", steps |-> <<>>,
   records |-> 0, entries |-> 0]

\* no batch_process_invoices call under way
BatchAtRest == [file_paths |-> <<>>, results |-> <<>>, pc |-> "idle", position |-> 0]

\* the services outside the call at hand: nothing fitted, logged or batched
ServicesAtRest ==
  /\ vectorizer = <<>>
  /\ calls = <<>>
  /\ audit_log = <<>>
  /\ batch = BatchAtRest

InitialAnalysis ==
  [overall_score |-> 0, flags |-> <<>>, confidence |-> 0, risk_level |-> "low",
   details |-> [duplicate |-> 0, inflation |-> 0, ghost_vendor |-> 0,
                split_billing |-> 0, pattern |-> 0, error |-> FALSE]]

Init ==
  /\ invoices = <<>>
  /\ phase = "idle"
  /\ invoice_data = NotAMapping
  /\ failing = {}
  /\ raised = FALSE
  /\ fraud_analysis = InitialAnalysis
  /\ text = <<>>
  /\ extracted = EmptyMapping
  /\ request = NoRequest
  /\ ServicesAtRest

\* a row enters the historical store
InsertRecord(r) ==
  /\ phase = "idle"
  /\ Len(invoices) < MaxRecords
  /\ invoices' = Append(invoices, r)
  /\ UNCHANGED <<phase, invoice_data, failing, raised, fraud_analysis, text, extracted, request, vectorizer, calls, audit_log, batch>>

\* one synchronous analyze_invoice call, from entry to return
AnalyzeInvoice(inv, f) ==
  /\ phase = "idle"
  /\ phase' = "returned"
  /\ invoice_data' = inv
  /\ failing' = f
  /\ raised' = RaisesToTopLevel(inv, f)
  /\ fraud_analysis' = AnalyzeInvoiceResult(inv, invoices, f)
  /\ UNCHANGED <<invoices, text, extracted, request, vectorizer, calls, audit_log, batch>>

\* the caller has taken the verdict; the next call builds a fresh one
NextRequest ==
  /\ phase = "returned"
  /\ phase' = "idle"
  /\ invoice_data' = NotAMapping
  /\ failing' = {}
  /\ raised' = FALSE
  /\ fraud_analysis' = InitialAnalysis
  /\ UNCHANGED <<invoices, text, extracted, request, vectorizer, calls, audit_log, batch>>

Next ==
  \/ \E r \in Records : InsertRecord(r)
  \/ \E inv \in InvoiceInputs \cup {NotAMapping}, f \in FailureModes :
       AnalyzeInvoice(inv, f)
  \/ NextRequest

Spec == Init /\ [][Next]_vars

(***************************************************************************)
(* The Field Extractor on its own: a raw text arrives and                  *)
(* extract_invoice_data is called on it once.                              *)
(***************************************************************************)
InitExtract ==
  /\ invoices = <<>>
  /\ phase = "idle"
  /\ invoice_data = NotAMapping
  /\ failing = {}
  /\ raised = FALSE
  /\ fraud_analysis = InitialAnalysis
  /\ text \in Texts
  /\ extracted = EmptyMapping
  /\ request = NoRequest
  /\ ServicesAtRest

\* one extract_invoice_data call, from entry to return
ExtractInvoiceData(raising) ==
  /\ phase = "idle"
  /\ phase' = "extracted"
  /\ failing' = raising
  /\ raised' = ExtractRaises(text, raising)
  /\ extracted' = ExtractInvoiceDataResult(text, raising)
  /\ UNCHANGED <<invoices, invoice_data, fraud_analysis, text, request, vectorizer, calls, audit_log, batch>>

NextExtract == \E raising \in ExtractFailureModes : ExtractInvoiceData(raising)

SpecExtract == InitExtract /\ [][NextExtract]_vars

(***************************************************************************)
(* The Field Extractor on the text of an itemised invoice.                 *)
(***************************************************************************)
InitItems ==
  /\ invoices = <<>>
  /\ phase = "idle"
  /\ invoice_data = NotAMapping
  /\ failing = {}
  /\ raised = FALSE
  /\ fraud_analysis = InitialAnalysis
  /\ text \in ItemTexts
  /\ extracted = EmptyMapping
  /\ request = NoRequest
  /\ ServicesAtRest

SpecItems == InitItems /\ [][NextExtract]_vars

(***************************************************************************)
(* The Fraud Scoring Engine over a store that already has a history.       *)
(***************************************************************************)
InitHistory ==
  /\ invoices \in PreparedStores
  /\ phase = "idle"
  /\ invoice_data = NotAMapping
  /\ failing = {}
  /\ raised = FALSE
  /\ fraud_analysis = InitialAnalysis
  /\ text = <<>>
  /\ extracted = EmptyMapping
  /\ request = NoRequest
  /\ ServicesAtRest

NextHistory ==
  \/ \E inv \in HistoryInputs \cup {NotAMapping}, f \in HistoryFailureModes :
       AnalyzeInvoice(inv, f)
  \/ NextRequest

SpecHistory == InitHistory /\ [][NextHistory]_vars

(***************************************************************************)
(* The Fraud Scoring Engine over a store that holds two rows of one vendor *)
(* and one day: the case of the split-billing signal.                      *)
(***************************************************************************)
\* two rows of 3000.00, two rows of 200.00, a row of each, and no row
SplitStores ==
  LET large == StoredRow(<<3000000, 0>>, "processed")
      small == StoredRow(<<200000, 200000>>, "processed")
  IN  {<<>>, <<large, large>>, <<small, small>>, <<large, small>>}

InitSplit ==
  /\ invoices \in SplitStores
  /\ phase = "idle"
  /\ invoice_data = NotAMapping
  /\ failing = {}
  /\ raised = FALSE
  /\ fraud_analysis = InitialAnalysis
  /\ text = <<>>
  /\ extracted = EmptyMapping
  /\ request = NoRequest
  /\ ServicesAtRest

SpecSplit == InitSplit /\ [][NextHistory]_vars

(***************************************************************************)
(* The orchestrator: process_invoice extracts, validates, has the invoice  *)
(* analysed and then stores it; reprocess_invoice runs process_invoice     *)
(* again on the file of a stored invoice and then updates that row.        *)
(***************************************************************************)
\* re.match(r'^[A-Za-z0-9\s\.,&\-]+$', vendor_name)
VendorNameChars == Letters \cup Digits \cup WhiteSpace \cup {".", ",", "&", "-"}

ValidateVendorName(vendor_name) ==
  /\ vendor_name # <<>>
  /\ Len(Strip(vendor_name)) >= 2 /\ Len(vendor_name) <= 200
  /\ \A i \in DOMAIN vendor_name : vendor_name[i] \in VendorNameChars

\* 0 <= float(amount) <= 1000000, the amount in thousandths
ValidateAmount(amount) == amount >= 0 /\ amount <= 1000000000

\* the dates of the model are ISO strings, which strptime('%Y-%m-%d') parses
ValidateDate(date_str) == date_str # ""

\* faulty variant: invoice_date is not among the required fields
ValidateInvoiceDataNoDate(extracted_data) ==
  /\ extracted_data.mapping
  /\ extracted_data.vendor_name # <<>> /\ extracted_data.amount # 0
  /\ ValidateVendorName(extracted_data.vendor_name)
  /\ ValidateAmount(extracted_data.amount)

ValidateInvoiceData(extracted_data) ==
  /\ extracted_data.mapping
  /\ extracted_data.vendor_name # <<>> /\ extracted_data.amount # 0
  /\ extracted_data.invoice_date # ""
  /\ ValidateVendorName(extracted_data.vendor_name)
  /\ ValidateAmount(extracted_data.amount)
  /\ ValidateDate(extracted_data.invoice_date)

\* what OCR and extraction yield for the file at each path (the fifth file is
\* a copy of the second, submitted again under a new path); the amounts are
\* whole cents, which the Numeric(10, 2) columns keep as they are
UploadedFiles ==
  << [mapping |-> TRUE, vendor_name |-> Acme, amount |-> 12000000, total_amount |-> 0,
      invoice_date |-> "2024-01-15", invoice_number |-> <<>>,
      description |-> OfficeSupplies, category |-> "travel"],
     [mapping |-> TRUE, vendor_name |-> AcmeLLC, amount |-> 200000,
      total_amount |-> 200000, invoice_date |-> "2024-01-15",
      invoice_number |-> SequentialNumber, description |-> <<>>, category |-> "travel"],
     [mapping |-> TRUE, vendor_name |-> Al, amount |-> 12000000, total_amount |-> 0,
      invoice_date |-> "2024-02-20", invoice_number |-> <<>>,
      description |-> <<>>, category |-> ""],
     [mapping |-> TRUE, vendor_name |-> Acme, amount |-> 200000, total_amount |-> 0,
      invoice_date |-> "", invoice_number |-> <<>>,
      description |-> OfficeSupplies, category |-> "travel"],
     [mapping |-> TRUE, vendor_name |-> AcmeLLC, amount |-> 200000,
      total_amount |-> 200000, invoice_date |-> "2024-01-15",
      invoice_number |-> SequentialNumber, description |-> <<>>, category |-> "travel"] >>

\* faulty variant: the extracted total_amount is stored with the row
InvoiceRecordWithTotal(extracted_data, analysis, file_path) ==
  [vendor_name |-> extracted_data.vendor_name, amount |-> extracted_data.amount,
   total_amount |-> extracted_data.total_amount,
   invoice_date |-> extracted_data.invoice_date,
   category |-> extracted_data.category, description |-> extracted_data.description,
   status |-> "processed", recent |-> TRUE, file_path |-> file_path,
   fraud_score |-> analysis.overall_score, fraud_flags |-> analysis.flags]

\* Invoice(...) of _create_invoice_record: total_amount is not passed
InvoiceRecord(extracted_data, analysis, file_path) ==
  [vendor_name |-> extracted_data.vendor_name, amount |-> extracted_data.amount,
   total_amount |-> 0, invoice_date |-> extracted_data.invoice_date,
   category |-> extracted_data.category, description |-> extracted_data.description,
   status |-> "processed", recent |-> TRUE, file_path |-> file_path,
   fraud_score |-> analysis.overall_score, fraud_flags |-> analysis.flags]

\* the file at each path as validate_file and the OCR engine find it:
\* "readable" passes both, "empty" has size 0, "blank" is a scan without text
FilesOnDisk ==
  <<"readable", "readable", "readable", "readable", "readable", "empty", "blank">>

\* the steps of process_invoice up to the verdict, in the order of the code
StepsToVerdict ==
  <<"validate_file", "extract_text", "extract_invoice_data", "validate_invoice_data",
    "analyze_invoice">>

\* the messages of the errors process_invoice raises before the analysis
RaisedBeforeAnalysis ==
  {"Invalid file format or corrupted file", "No text could be extracted from the file",
   "Invalid invoice data extracted"}

\* process_invoice is entered on the file at file_path; records and entries
\* remember the sizes of the store and of the audit log at entry, steps the
\* steps completed so far
StartProcessing(file_path, invoice_id, caller) ==
  /\ phase = "idle"
  /\ Len(invoices) < MaxRecords
  /\ request' = [file_path |-> file_path, invoice_id |-> invoice_id, caller |-> caller,
                 error |-> "", steps |-> <<>>, records |-> Len(invoices),
                 entries |-> Len(audit_log)]
  /\ phase' = "started"
  /\ UNCHANGED <<invoices, invoice_data, failing, raised, fraud_analysis, text, extracted, vectorizer, calls, audit_log>>

\* raise ValueError(message), or an exception that passes through
Fail(message) ==
  /\ phase' = "failed"
  /\ raised' = TRUE
  /\ request' = [request EXCEPT !.error = message]

\* a step of process_invoice has completed
Completed(step, next_phase) ==
  /\ phase' = next_phase
  /\ request' = [request EXCEPT !.steps = Append(@, step)]
  /\ UNCHANGED raised

\* validator.validate_file(file_path)
ValidateFile ==
  /\ phase = "started"
  /\ IF FilesOnDisk[request.file_path] # "empty"
       THEN Completed("validate_file", "file_validated")
       ELSE Fail("Invalid file format or corrupted file")
  /\ UNCHANGED <<invoices, invoice_data, failing, fraud_analysis, text, extracted, vectorizer, calls, audit_log, batch>>

\* ocr_engine.extract_text(file_path)
ExtractText ==
  /\ phase = "file_validated"
  /\ IF FilesOnDisk[request.file_path] # "blank"
       THEN Completed("extract_text", "text_extracted")
       ELSE Fail("No text could be extracted from the file")
  /\ UNCHANGED <<invoices, invoice_data, failing, fraud_analysis, text, extracted, vectorizer, calls, audit_log, batch>>

\* nlp_extractor.extract_invoice_data(extracted_text)
ExtractData ==
  /\ phase = "text_extracted"
  /\ invoice_data' = UploadedFiles[request.file_path]
  /\ Completed("extract_invoice_data", "data_extracted")
  /\ UNCHANGED <<invoices, failing, fraud_analysis, text, extracted, vectorizer, calls, audit_log, batch>>

\* validator.validate_invoice_data(extracted_data)
ValidateData ==
  /\ phase = "data_extracted"
  /\ IF ValidateInvoiceData(invoice_data)
       THEN Completed("validate_invoice_data", "validated")
       ELSE Fail("Invalid invoice data extracted")
  /\ UNCHANGED <<invoices, invoice_data, failing, fraud_analysis, text, extracted, vectorizer, calls, audit_log, batch>>

\* no batch is running
NoBatch == batch.pc = "idle"

\* process_invoice on a newly uploaded file, saved under a fresh path
ProcessInvoice(file_path) ==
  /\ NoBatch
  /\ \A i \in DOMAIN invoices : invoices[i].file_path # file_path
  /\ StartProcessing(file_path, 0, "upload")
  /\ UNCHANGED batch

\* reprocess_invoice: the row is looked up and its file is processed again
ReprocessInvoice(invoice_id) ==
  /\ NoBatch
  /\ IF invoice_id \in DOMAIN invoices
       THEN StartProcessing(invoices[invoice_id].file_path, invoice_id, "reprocess")
       ELSE /\ phase = "idle"
            /\ phase' = "failed"
            /\ raised' = TRUE
            /\ request' = [file_path |-> 0, invoice_id |-> invoice_id,
                           caller |-> "reprocess", error |-> "Invoice not found",
                           steps |-> <<>>, records |-> Len(invoices),
                           entries |-> Len(audit_log)]
            /\ UNCHANGED <<invoices, invoice_data, failing, fraud_analysis, text, extracted, vectorizer, calls, audit_log>>
  /\ UNCHANGED batch

\* the analyze_invoice call of process_invoice, from entry to return
AnalyzeExtractedData(f) ==
  /\ phase = "validated"
  /\ phase' = "returned"
  /\ failing' = f
  /\ raised' = RaisesToTopLevel(invoice_data, f)
  /\ fraud_analysis' = AnalyzeInvoiceResult(invoice_data, invoices, f)
  /\ request' = [request EXCEPT !.steps = Append(@, "analyze_invoice")]
  /\ UNCHANGED <<invoices, invoice_data, text, extracted, vectorizer, calls, audit_log, batch>>

\* _create_invoice_record: the row is added and committed, or the commit
\* raises (a SQLite Date column refuses the ISO string of invoice_date)
CreateInvoiceRecord(committed) ==
  /\ phase = "returned"
  /\ IF committed
       THEN /\ invoices' =
                 Append(invoices, InvoiceRecord(invoice_data, fraud_analysis, request.file_path))
            /\ Completed("create_invoice_record", "created")
       ELSE /\ Fail("commit failed")
            /\ UNCHANGED invoices
  /\ UNCHANGED <<invoice_data, failing, fraud_analysis, text, extracted, vectorizer, calls, audit_log, batch>>

\* AuditLog(invoice_id=..., action=...)
AuditEntry(invoice_id, action) == [invoice_id |-> invoice_id, action |-> action]

\* _log_audit_trail: process_invoice logs the row it has created, and
\* reprocess_invoice the row it has updated
LogAuditTrail(committed) ==
  /\ phase \in {"created", "updated"}
  /\ IF committed
       THEN IF phase = "created"
              THEN /\ audit_log' =
                        Append(audit_log, AuditEntry(Len(invoices), "invoice_processed"))
                   /\ Completed("log_audit_trail", "logged")
              ELSE /\ audit_log' =
                        Append(audit_log, AuditEntry(request.invoice_id, "invoice_reprocessed"))
                   /\ Completed("log_audit_trail", "reprocessed")
       ELSE /\ Fail("commit failed")
            /\ UNCHANGED audit_log
  /\ UNCHANGED <<invoices, invoice_data, failing, fraud_analysis, text, extracted, vectorizer, calls, batch>>

\* the call variables once a call is over
CallOver ==
  /\ phase' = "idle"
  /\ invoice_data' = NotAMapping
  /\ failing' = {}
  /\ raised' = FALSE
  /\ fraud_analysis' = InitialAnalysis
  /\ request' = NoRequest
  /\ UNCHANGED <<text, extracted, vectorizer, calls, audit_log>>

\* process_invoice returns its result to the upload route
ReturnResult ==
  /\ phase = "logged"
  /\ request.caller = "upload"
  /\ UNCHANGED <<invoices, batch>>
  /\ CallOver

\* faulty variant: the new results are stored, the status is left as it was
UpdatedRecordKeepsStatus(invoice, analysis) ==
  [invoice EXCEPT !.fraud_score = analysis.overall_score,
                  !.fraud_flags = analysis.flags]

\* the assignments of _update_invoice_record
UpdatedRecord(invoice, analysis) ==
  [invoice EXCEPT !.status = "reprocessed",
                  !.fraud_score = analysis.overall_score,
                  !.fraud_flags = analysis.flags]

\* _update_invoice_record: reprocess_invoice rewrites the row it was given
UpdateInvoiceRecord(committed) ==
  /\ phase = "logged"
  /\ request.caller = "reprocess"
  /\ IF committed
       THEN /\ invoices' = [invoices EXCEPT ![request.invoice_id] =
                              UpdatedRecord(@, fraud_analysis)]
            /\ Completed("update_invoice_record", "updated")
       ELSE /\ Fail("commit failed")
            /\ UNCHANGED invoices
  /\ UNCHANGED <<invoice_data, failing, fraud_analysis, text, extracted, vectorizer, calls, audit_log, batch>>

\* reprocess_invoice returns the result of process_invoice
ReturnReprocessed ==
  /\ phase = "reprocessed"
  /\ UNCHANGED <<invoices, batch>>
  /\ CallOver

\* the exception is logged and raised again to the caller, up to the route
RaiseToCaller ==
  /\ phase = "failed"
  /\ request.caller # "batch"
  /\ UNCHANGED <<invoices, batch>>
  /\ CallOver

\* the batches of the model: lists of up to MaxBatch paths over a file with
\* valid data, a file with invalid data and a scan without text
BatchPaths == {1, 4, 7}

FilePathLists == UNION {[1..n -> BatchPaths] : n \in 0..MaxBatch}

\* the files of a list that can end in a stored record
Storable(file_paths) ==
  {i \in DOMAIN file_paths :
     /\ FilesOnDisk[file_paths[i]] = "readable"
     /\ ValidateInvoiceData(UploadedFiles[file_paths[i]])}

\* batch_process_invoices is entered: results = []
BatchProcessInvoices(file_paths) ==
  /\ phase = "idle"
  /\ NoBatch
  /\ Len(invoices) + Cardinality(Storable(file_paths)) <= MaxRecords
  /\ batch' = [file_paths |-> file_paths, results |-> <<>>, pc |-> "running", position |-> 1]
  /\ UNCHANGED <<invoices, phase, invoice_data, failing, raised, fraud_analysis, text, extracted, request, vectorizer, calls, audit_log>>

\* for file_path in file_paths: process_invoice(file_path, user_id)
BatchNextFile ==
  /\ batch.pc = "running"
  /\ batch.position <= Len(batch.file_paths)
  /\ StartProcessing(batch.file_paths[batch.position], 0, "batch")
  /\ UNCHANGED batch

\* faulty variant: the failed file leaves nothing in the results
ResultsAfterFailureSkipped(results, file_path, error) == results

\* the except branch of the loop
ResultsAfterFailure(results, file_path, error) ==
  Append(results, [file_path |-> file_path, status |-> "failed", error |-> error])

\* results.append(result), with the result of process_invoice
BatchAppendResult ==
  /\ phase = "logged"
  /\ request.caller = "batch"
  /\ batch' = [batch EXCEPT !.results = Append(@, [invoice_id |-> Len(invoices),
                                                   status |-> "processed"]),
                            !.position = @ + 1]
  /\ UNCHANGED invoices
  /\ CallOver

\* the exception of process_invoice is caught and recorded
BatchAppendFailure ==
  /\ phase = "failed"
  /\ request.caller = "batch"
  /\ batch' = [batch EXCEPT !.results =
                              ResultsAfterFailure(@, request.file_path, request.error),
                            !.position = @ + 1]
  /\ UNCHANGED invoices
  /\ CallOver

\* return results
ReturnResults ==
  /\ phase = "idle"
  /\ batch.pc = "running"
  /\ batch.position > Len(batch.file_paths)
  /\ batch' = [batch EXCEPT !.pc = "returned"]
  /\ UNCHANGED <<invoices, phase, invoice_data, failing, raised, fraud_analysis, text, extracted, request, vectorizer, calls, audit_log>>

\* the caller has the results
BatchOver ==
  /\ batch.pc = "returned"
  /\ batch' = BatchAtRest
  /\ UNCHANGED <<invoices, phase, invoice_data, failing, raised, fraud_analysis, text, extracted, request, vectorizer, calls, audit_log>>

InitProcess ==
  /\ invoices = <<>>
  /\ phase = "idle"
  /\ invoice_data = NotAMapping
  /\ failing = {}
  /\ raised = FALSE
  /\ fraud_analysis = InitialAnalysis
  /\ text = <<>>
  /\ extracted = EmptyMapping
  /\ request = NoRequest
  /\ ServicesAtRest

NextProcess ==
  \/ \E file_path \in DOMAIN FilesOnDisk : ProcessInvoice(file_path)
  \/ \E invoice_id \in 1..MaxRecords : ReprocessInvoice(invoice_id)
  \/ \E file_paths \in FilePathLists : BatchProcessInvoices(file_paths)
  \/ BatchNextFile
  \/ ValidateFile
  \/ ExtractText
  \/ ExtractData
  \/ ValidateData
  \/ \E f \in HistoryFailureModes : AnalyzeExtractedData(f)
  \/ \E committed \in BOOLEAN : CreateInvoiceRecord(committed)
  \/ \E committed \in BOOLEAN : LogAuditTrail(committed)
  \/ ReturnResult
  \/ \E committed \in BOOLEAN : UpdateInvoiceRecord(committed)
  \/ ReturnReprocessed
  \/ RaiseToCaller
  \/ BatchAppendResult
  \/ BatchAppendFailure
  \/ ReturnResults
  \/ BatchOver

SpecProcess == InitProcess /\ [][NextProcess]_vars

(***************************************************************************)
(* Two requests at a time: the routes share one FraudDetector, and with it *)
(* one TfidfVectorizer, between the threads of the server.  The store is   *)
(* fixed; each analyze_invoice call fits and transforms once per candidate *)
(* of its duplicate query.                                                 *)
(***************************************************************************)
Callers == {"first", "second"}

\* stores whose rows the duplicate query returns without an exact duplicate
ConcurrentStores ==
  LET llc == StoredRow(<<200000, 200000>>, "processed")
      inc == [llc EXCEPT !.vendor_name = AcmeInc]
  IN  { <<llc>>, <<inc>>, <<llc, inc>> }

ConcurrentInputs ==
  { [mapping |-> TRUE, vendor_name |-> v, amount |-> 200000, total_amount |-> 0,
     invoice_date |-> "2024-01-15", invoice_number |-> <<>>, description |-> t,
     category |-> ""] : v \in {Acme, AcmeLLC, Al}, t \in {<<>>, OfficeSupplies} }

CallAtRest ==
  [pc |-> "idle", invoice_data |-> NotAMapping, k |-> 0, max_similarity |-> 0,
   fraud_analysis |-> InitialAnalysis]

InitConcurrent ==
  /\ invoices \in ConcurrentStores
  /\ phase = "idle"
  /\ invoice_data = NotAMapping
  /\ failing = {}
  /\ raised = FALSE
  /\ fraud_analysis = InitialAnalysis
  /\ text = <<>>
  /\ extracted = EmptyMapping
  /\ request = NoRequest
  /\ vectorizer = <<>>
  /\ calls = [c \in Callers |-> CallAtRest]
  /\ audit_log = <<>>
  /\ batch = BatchAtRest

\* analyze_invoice is entered; it runs up to the first fit_transform, or to
\* its return when the duplicate check needs no text similarity
EnterAnalyzeInvoice(c, inv) ==
  /\ calls[c].pc = "idle"
  /\ calls' = [calls EXCEPT ![c] =
       IF ReachesTextSimilarity(inv, invoices)
         THEN [pc |-> "fit", invoice_data |-> inv, k |-> 1, max_similarity |-> 0,
               fraud_analysis |-> InitialAnalysis]
         ELSE [pc |-> "done", invoice_data |-> inv, k |-> 0, max_similarity |-> 0,
               fraud_analysis |-> AnalyzeInvoiceResult(inv, invoices, {})]]
  /\ UNCHANGED <<invoices, phase, invoice_data, failing, raised, fraud_analysis, text, extracted, request, vectorizer, audit_log, batch>>

\* the similarity of candidate k is in; the loop goes on or the call ends
WithSimilarity(call, similarity) ==
  LET max_similarity == IF similarity > call.max_similarity THEN similarity
                        ELSE call.max_similarity
  IN  IF call.k < Len(FindSimilarInvoices(call.invoice_data, invoices))
        THEN [call EXCEPT !.pc = "fit", !.k = @ + 1, !.max_similarity = max_similarity]
        ELSE [call EXCEPT !.pc = "done", !.max_similarity = max_similarity,
                          !.fraud_analysis =
                            AnalyzeInvoiceWithSimilarity(call.invoice_data, invoices,
                                                         max_similarity)]

\* fit_transform, first half: the weights of this call's two texts are
\* stored in the shared vectorizer; an empty vocabulary raises ValueError
FitVectorizer(c) ==
  LET call == calls[c]
      f1 == InvoiceFeatures(call.invoice_data)
      f2 == RecordFeatures(FindSimilarInvoices(call.invoice_data, invoices)[call.k])
  IN  /\ call.pc = "fit"
      /\ IF f1 = <<>> /\ f2 = <<>>
           THEN /\ calls' = [calls EXCEPT ![c] = WithSimilarity(call, 0)]
                /\ UNCHANGED vectorizer
           ELSE /\ calls' = [calls EXCEPT ![c].pc = "transform"]
                /\ vectorizer' = FitIdf(f1, f2)
      /\ UNCHANGED <<invoices, phase, invoice_data, failing, raised, fraud_analysis, text, extracted, request, audit_log, batch>>

\* fit_transform, second half, and cosine_similarity: the texts of this call
\* are weighted by whatever the shared vectorizer holds now
TransformTexts(c) ==
  LET call == calls[c]
      f1 == InvoiceFeatures(call.invoice_data)
      f2 == RecordFeatures(FindSimilarInvoices(call.invoice_data, invoices)[call.k])
  IN  /\ call.pc = "transform"
      /\ \E similarity \in TransformOutcomes(vectorizer, f1, f2) :
           calls' = [calls EXCEPT ![c] = WithSimilarity(call, similarity)]
      /\ UNCHANGED <<invoices, phase, invoice_data, failing, raised, fraud_analysis, text, extracted, request, vectorizer, audit_log, batch>>

\* the caller takes the verdict
ReturnVerdict(c) ==
  /\ calls[c].pc = "done"
  /\ calls' = [calls EXCEPT ![c] = CallAtRest]
  /\ UNCHANGED <<invoices, phase, invoice_data, failing, raised, fraud_analysis, text, extracted, request, vectorizer, audit_log, batch>>

NextConcurrent ==
  \E c \in Callers :
    \/ \E inv \in ConcurrentInputs : EnterAnalyzeInvoice(c, inv)
    \/ FitVectorizer(c)
    \/ TransformTexts(c)
    \/ ReturnVerdict(c)

SpecConcurrent == InitConcurrent /\ [][NextConcurrent]_vars


(***************************************************************************)
(* Views of the last call, used by the properties below.                   *)
(***************************************************************************)
Returned == phase = "returned"

\* a verdict of the normal path
Normal == Returned /\ ~raised

DuplicateScore == CheckDuplicateClaims(invoice_data, invoices, failing)
InflationScore == CheckInflatedExpenses(invoice_data, invoices, failing)
GhostVendorScore == CheckGhostVendor(invoice_data, invoices, failing)
SplitBillingScore == CheckSplitBilling(invoice_data, invoices, failing)
PatternScore == CheckSuspiciousPatterns(invoice_data, invoices, failing)

SignalScores ==
  {DuplicateScore, InflationScore, GhostVendorScore, SplitBillingScore, PatternScore}

FlagSet == {fraud_analysis.flags[i] : i \in DOMAIN fraud_analysis.flags}

IsFailureVerdict ==
  /\ fraud_analysis.overall_score = 0
  /\ fraud_analysis.flags = <<"analysis_failed">>
  /\ fraud_analysis.risk_level = "unknown"
  /\ fraud_analysis.confidence = 0

\* total_amount, else amount, of row i
StoredAmount(i) ==
  IF invoices[i].total_amount # 0 THEN invoices[i].total_amount ELSE invoices[i].amount

RECURSIVE SumStoredAmounts(_)
SumStoredAmounts(S) ==
  IF S = {} THEN 0
  ELSE LET i == CHOOSE j \in S : TRUE IN StoredAmount(i) + SumStoredAmounts(S \ {i})

RECURSIVE SumTotalAmounts(_)
SumTotalAmounts(S) ==
  IF S = {} THEN 0
  ELSE LET i == CHOOSE j \in S : TRUE
       IN  invoices[i].total_amount + SumTotalAmounts(S \ {i})

\* the score of an inflation ratio amount / (sum / n)
RatioScore(amount, sum, n) ==
  IF amount * n > 3 * sum THEN 100
  ELSE IF amount * n > 2 * sum THEN 80
  ELSE IF 2 * amount * n > 3 * sum THEN 60
  ELSE 0

ConfidenceFields ==
  {"vendor_name", "amount", "invoice_date", "invoice_number", "description", "category"}

AbsentValue(f) ==
  IF f = "amount" THEN 0
  ELSE IF f \in {"invoice_date", "category"} THEN ""
  ELSE <<>>

AbsentFields(inv) == {f \in ConfidenceFields : inv[f] = AbsentValue(f)}

WithoutField(inv, f) == [inv EXCEPT ![f] = AbsentValue(f)]

(***************************************************************************)
(* C1. On every non-failure verdict overall_score is the maximum of the    *)
(* five signal scores computed for the invoice: it is one of them and no   *)
(* signal score exceeds it.                                                *)
(***************************************************************************)
C1_OverallIsMax ==
  Normal =>
    /\ fraud_analysis.overall_score \in SignalScores
    /\ \A sc \in SignalScores : sc <= fraud_analysis.overall_score

\* five different signal scores, so every blend differs from the maximum
C1_Witness ==
  /\ Normal
  /\ Cardinality(SignalScores) = 5
  /\ fraud_analysis.overall_score = 80

(***************************************************************************)
(* C2. On every non-failure verdict risk_level is 'high' iff               *)
(* overall_score > 0.8, 'medium' iff 0.5 < overall_score <= 0.8 and 'low'  *)
(* iff overall_score <= 0.5.                                               *)
(***************************************************************************)
C2_RiskLevelStep ==
  Normal =>
    /\ fraud_analysis.risk_level = "high" <=> fraud_analysis.overall_score > 80
    /\ fraud_analysis.risk_level = "medium" <=>
         (fraud_analysis.overall_score > 50 /\ fraud_analysis.overall_score <= 80)
    /\ fraud_analysis.risk_level = "low" <=> fraud_analysis.overall_score <= 50

\* the boundary score 0.8 gives medium
C2_Witness ==
  /\ Normal
  /\ fraud_analysis.overall_score = 80
  /\ fraud_analysis.risk_level = "medium"

(***************************************************************************)
(* C3. The verdict has risk_level 'unknown' iff an exception reached the   *)
(* top-level handler; then overall_score is 0.0, flags is exactly          *)
(* ['analysis_failed'] and confidence is 0.0; a verdict of the normal path *)
(* has neither risk_level 'unknown' nor the flag 'analysis_failed'.        *)
(***************************************************************************)
C3_UnknownIffFailure ==
  Returned =>
    /\ fraud_analysis.risk_level = "unknown" <=> raised
    /\ raised => IsFailureVerdict
    /\ ~raised => /\ fraud_analysis.risk_level \in {"low", "medium", "high"}
                  /\ "analysis_failed" \notin FlagSet

C3_Witness ==
  /\ Returned
  /\ raised
  /\ ~invoice_data.mapping
  /\ fraud_analysis.risk_level = "unknown"

(***************************************************************************)
(* C4. As claimed: when every historical query raises during one call, so  *)
(* that the duplicate, inflation, ghost-vendor and split-billing checks    *)
(* all reach a raising query, the verdict is the failure verdict.          *)
(***************************************************************************)
AllQueriesReached ==
  /\ invoice_data.mapping
  /\ invoice_data.vendor_name # <<>>
  /\ ~(\E k \in SuspiciousVendors : Contains(Lower(invoice_data.vendor_name), k))
  /\ InvoiceAmount(invoice_data) # 0
  /\ invoice_data.invoice_date # ""
  /\ invoice_data.category # ""

C4_AllThrowGivesFailureVerdict ==
  (Returned /\ failing = QuerySites /\ AllQueriesReached) => IsFailureVerdict

(***************************************************************************)
(* C4, amended. When every historical query raises during one call on an   *)
(* invoice mapping, each exception is caught inside its signal check and   *)
(* the verdict is a normal one: risk_level is low, medium or high, the     *)
(* flag 'analysis_failed' is absent, confidence is the completeness value, *)
(* the duplicate, inflation and split-billing scores are 0.0, the          *)
(* ghost-vendor score is 0.0 or the keyword score 0.9, and overall_score   *)
(* is the larger of the ghost-vendor and the pattern score.                *)
(***************************************************************************)
C4_AllThrowGivesNormalVerdict ==
  (Returned /\ failing = QuerySites /\ invoice_data.mapping) =>
    /\ ~raised
    /\ fraud_analysis.risk_level \in {"low", "medium", "high"}
    /\ "analysis_failed" \notin FlagSet
    /\ fraud_analysis.confidence = 100 - 10 * Cardinality(AbsentFields(invoice_data))
    /\ fraud_analysis.details.duplicate = 0
    /\ fraud_analysis.details.inflation = 0
    /\ fraud_analysis.details.split_billing = 0
    /\ fraud_analysis.details.ghost_vendor \in {0, 90}
    /\ fraud_analysis.overall_score =
         Max(fraud_analysis.details.ghost_vendor, fraud_analysis.details.pattern)

\* every check reaches its raising query, over a store that holds a duplicate
C4_Witness ==
  /\ Returned
  /\ failing = QuerySites
  /\ AllQueriesReached
  /\ \E i \in DOMAIN invoices : IsExactDuplicate(invoice_data, invoices[i])
  /\ fraud_analysis.overall_score = 0
  /\ fraud_analysis.risk_level = "low"

(***************************************************************************)
(* C5. As claimed: an invoice with the vendor of a 'processed' row and a   *)
(* total within 0.01 of that row's total_amount has duplicate score 1.0,   *)
(* whatever other fields it has or lacks (the duplicate query answering).  *)
(***************************************************************************)
C5_SameVendorAndTotalIsDuplicate ==
  (/\ Normal
   /\ "duplicate" \notin failing
   /\ invoice_data.vendor_name # <<>>
   /\ InvoiceAmount(invoice_data) # 0
   /\ \E i \in DOMAIN invoices :
        /\ invoices[i].status = "processed"
        /\ Lower(invoices[i].vendor_name) = Lower(invoice_data.vendor_name)
        /\ invoices[i].total_amount # 0
        /\ Abs(InvoiceAmount(invoice_data) - invoices[i].total_amount) < 10)
  => fraud_analysis.details.duplicate = 100

(***************************************************************************)
(* C6. As claimed: with amount and category present and some 'processed'   *)
(* row of the category, the inflation score follows the ratio of the       *)
(* amount to the mean total_amount of those rows (the category query       *)
(* answering; the mean taken over the rows that have a total_amount).      *)
(***************************************************************************)
ProcessedInCategory ==
  {i \in DOMAIN invoices : /\ invoices[i].status = "processed"
                           /\ invoices[i].category = invoice_data.category}

C6_InflationOverMeanTotalAmount ==
  (Normal /\ "category" \notin failing) =>
    LET amount == InvoiceAmount(invoice_data)
        withTotal == {i \in ProcessedInCategory : invoices[i].total_amount # 0}
    IN  IF amount = 0 \/ invoice_data.category = "" \/ ProcessedInCategory = {}
          THEN fraud_analysis.details.inflation = 0
        ELSE withTotal # {} =>
               fraud_analysis.details.inflation =
                 RatioScore(amount, SumTotalAmounts(withTotal), Cardinality(withTotal))

(***************************************************************************)
(* C6, amended. The inflation score is 0.0 when amount or category is      *)
(* absent, when no 'processed' row shares the category (a raising category *)
(* query counting as none), or when the category mean is 0; otherwise,     *)
(* with category_mean the mean over those rows of total_amount, falling    *)
(* back to amount when a row has no total_amount, and ratio = amount /     *)
(* category_mean, it is 1.0 if ratio > 3.0, 0.8 if 2.0 < ratio <= 3.0,     *)
(* 0.6 if 1.5 < ratio <= 2.0 and 0.0 if ratio <= 1.5.                      *)
(***************************************************************************)
C6_InflationOverMeanWithFallback ==
  Normal =>
    LET amount == InvoiceAmount(invoice_data)
        rows == IF "category" \in failing THEN {} ELSE ProcessedInCategory
    IN  IF amount = 0 \/ invoice_data.category = "" \/ rows = {}
           \/ SumStoredAmounts(rows) = 0
          THEN fraud_analysis.details.inflation = 0
        ELSE fraud_analysis.details.inflation =
               RatioScore(amount, SumStoredAmounts(rows), Cardinality(rows))

\* the fallback decides: the rows' total_amount alone would give 0.6
C6_Witness ==
  /\ Normal
  /\ failing = {}
  /\ \E i \in ProcessedInCategory : invoices[i].total_amount = 0
  /\ LET withTotal == {i \in ProcessedInCategory : invoices[i].total_amount # 0}
     IN  /\ withTotal # {}
         /\ RatioScore(InvoiceAmount(invoice_data), SumTotalAmounts(withTotal),
                       Cardinality(withTotal)) = 60
  /\ fraud_analysis.details.inflation = 0

(***************************************************************************)
(* C7. If the lower-cased vendor_name contains one of cash, personal,      *)
(* friend, family, test, demo, the ghost_vendor score is 0.9, whatever the *)
(* other fields, the store, and whether the queries answer.                *)
(***************************************************************************)
C7_SuspiciousKeywordScores ==
  (/\ Returned
   /\ invoice_data.mapping
   /\ \E k \in { <<"c","a","s","h">>, <<"p","e","r","s","o","n","a","l">>,
                 <<"f","r","i","e","n","d">>, <<"f","a","m","i","l","y">>,
                 <<"t","e","s","t">>, <<"d","e","m","o">> } :
        Contains(Lower(invoice_data.vendor_name), k))
  => fraud_analysis.details.ghost_vendor = 90

\* 'Test Vendor' over a non-empty store whose queries raise
C7_Witness ==
  /\ Returned
  /\ invoice_data.vendor_name = TestVendor
  /\ failing = QuerySites
  /\ invoices # <<>>
  /\ fraud_analysis.details.ghost_vendor = 90

(***************************************************************************)
(* C8. For an invoice with vendor, amount and invoice_date present (the    *)
(* split query answering), the split_billing score is decided by the       *)
(* 'processed' rows matching the vendor on the same invoice_date: 0.0 with *)
(* fewer than 2; else 0.9 when their amounts (total_amount, else amount)   *)
(* sum to more than 5000; else 0.8 when the amounts are all equal; else    *)
(* 0.0.                                                                    *)
(***************************************************************************)
SplitMatches ==
  {i \in DOMAIN invoices :
     /\ invoices[i].status = "processed"
     /\ Ilike(invoices[i].vendor_name, invoice_data.vendor_name)
     /\ invoices[i].invoice_date = invoice_data.invoice_date}

C8_SplitBillingScore ==
  (/\ Normal
   /\ "split" \notin failing
   /\ invoice_data.vendor_name # <<>>
   /\ InvoiceAmount(invoice_data) # 0
   /\ invoice_data.invoice_date # "")
  => fraud_analysis.details.split_billing =
       IF Cardinality(SplitMatches) < 2 THEN 0
       ELSE IF SumStoredAmounts(SplitMatches) > 5000000 THEN 90
       ELSE IF \A i, j \in SplitMatches : StoredAmount(i) = StoredAmount(j) THEN 80
       ELSE 0

\* two matched rows of 200.00 each
C8_Witness ==
  /\ Normal
  /\ Cardinality(SplitMatches) = 2
  /\ \A i \in SplitMatches : StoredAmount(i) = 200000
  /\ fraud_analysis.details.split_billing = 80

(***************************************************************************)
(* C9. Confidence is 1.0 minus 0.1 for each absent field among             *)
(* vendor_name, amount, invoice_date, invoice_number, description and      *)
(* category, floored at 0.0; it never exceeds 1.0, removing a field never  *)
(* increases it, and it is a function of the invoice alone.                *)
(***************************************************************************)
C9_ConfidenceIsCompleteness ==
  Normal =>
    /\ fraud_analysis.confidence =
         Max(0, 100 - 10 * Cardinality(AbsentFields(invoice_data)))
    /\ fraud_analysis.confidence <= 100
    /\ \A f \in ConfidenceFields :
         CalculateConfidence(WithoutField(invoice_data, f)) <= fraud_analysis.confidence

\* description and category absent, under a verdict of score 1.0
C9_Witness ==
  /\ Normal
  /\ AbsentFields(invoice_data) = {"description", "category"}
  /\ fraud_analysis.confidence = 80
  /\ fraud_analysis.overall_score = 100
  /\ invoices # <<>>

(***************************************************************************)
(* C10. On every non-failure verdict flags is a subsequence of             *)
(* [duplicate_claim, inflated_expense, ghost_vendor, split_billing,        *)
(* suspicious_patterns], and each flag is present iff its signal's score   *)
(* strictly exceeds its threshold (0.8, 1.5, 0.7, 0.9, 0.6).               *)
(***************************************************************************)
FlagOrder ==
  <<"duplicate_claim", "inflated_expense", "ghost_vendor", "split_billing",
    "suspicious_patterns">>

FlagPosition(flag) == CHOOSE i \in DOMAIN FlagOrder : FlagOrder[i] = flag

C10_FlagsFollowThresholds ==
  Normal =>
    /\ \A i \in DOMAIN fraud_analysis.flags :
         \E k \in DOMAIN FlagOrder : FlagOrder[k] = fraud_analysis.flags[i]
    /\ \A i, j \in DOMAIN fraud_analysis.flags :
         i < j => FlagPosition(fraud_analysis.flags[i]) < FlagPosition(fraud_analysis.flags[j])
    /\ "duplicate_claim" \in FlagSet <=> DuplicateScore > 80
    /\ "inflated_expense" \in FlagSet <=> InflationScore > 150
    /\ "ghost_vendor" \in FlagSet <=> GhostVendorScore > 70
    /\ "split_billing" \in FlagSet <=> SplitBillingScore > 90
    /\ "suspicious_patterns" \in FlagSet <=> PatternScore > 60

\* a ghost_vendor score equal to its threshold raises no flag, next to a raised one
C10_Witness ==
  /\ Normal
  /\ GhostVendorScore = 70
  /\ fraud_analysis.flags = <<"suspicious_patterns">>

(***************************************************************************)
(* C11. No verdict returned by analyze_invoice contains the flag           *)
(* 'inflated_expense': the inflation score never exceeds 1.0 and the flag  *)
(* asks for a score over 1.5, so the flag is out of reach for every        *)
(* invoice and every store, also when the inflation score is 1.0 and       *)
(* risk_level is 'high'.                                                   *)
(***************************************************************************)
C11_InflatedExpenseNeverFlagged ==
  Returned =>
    /\ "inflated_expense" \notin FlagSet
    /\ fraud_analysis.details.inflation <= 100
    /\ 100 < ThresholdInflation

\* an invoice over three times its category average: score 1.0, risk high
C11_Witness ==
  /\ Normal
  /\ InflationScore = 100
  /\ fraud_analysis.details.inflation = 100
  /\ fraud_analysis.risk_level = "high"
  /\ "inflated_expense" \notin FlagSet

(***************************************************************************)
(* Views of the last extract_invoice_data call.                            *)
(***************************************************************************)
Extracted == phase = "extracted"

\* the call went through every sub-extraction
ExtractedNormally == Extracted /\ failing = {} /\ Strip(text) # <<>>

(***************************************************************************)
(* C12. When the text has a labelled amount, the extracted 'amount' is the *)
(* labelled value chosen by the priority chain; the largest-numeric-token  *)
(* rule is used only when no labelled pattern matches.  A text with        *)
(* 'Total: $1,250.00', 'Invoice #INV-2024-0099' and 'Vendor: Acme LLC'     *)
(* yields amount 1250.00 although the invoice number holds the larger      *)
(* token 2024.                                                             *)
(***************************************************************************)
C12_AmountIsLabeledValue ==
  ExtractedNormally =>
    LET cleaned_text == CleanText(text)
        labelled == LabeledAmount(cleaned_text)
        amounts == ExtractAllAmounts(cleaned_text)
    IN  IF labelled # <<>>
          THEN "amount" \in DOMAIN extracted /\ extracted.amount = labelled[1]
        ELSE IF amounts # <<>>
          THEN "amount" \in DOMAIN extracted /\ extracted.amount = MaxSeq(amounts)
        ELSE "amount" \notin DOMAIN extracted

(***************************************************************************)
(* C13. extract_invoice_data called with an empty or whitespace-only text  *)
(* returns the empty mapping, with no key at all (not even the default     *)
(* currency), and does not raise.                                          *)
(***************************************************************************)
C13_BlankTextGivesEmptyMapping ==
  (Extracted /\ Strip(text) = <<>>) => (DOMAIN extracted = {} /\ ~raised)

\* a text of blanks and a newline
C13_Witness ==
  /\ Extracted
  /\ failing = {}
  /\ Len(text) > 2
  /\ \A i \in DOMAIN text : text[i] \in WhiteSpace
  /\ \E i \in DOMAIN text : text[i] = "\n"
  /\ DOMAIN extracted = {}
  /\ ~raised

(***************************************************************************)
(* C14. extract_invoice_data never raises to its caller; when any          *)
(* sub-extraction raises, the whole call returns the empty mapping and not *)
(* a partial one.                                                          *)
(***************************************************************************)
C14_ExtractionNeverRaises ==
  Extracted => (~raised /\ (failing # {} => DOMAIN extracted = {}))

\* a text whose other fields would have been extracted
C14_Witness ==
  /\ Extracted
  /\ failing = {"amount"}
  /\ {"total_amount", "vendor_name", "currency"} \subseteq DOMAIN ExtractInvoiceDataResult(text, {})
  /\ DOMAIN extracted = {}
  /\ ~raised

(***************************************************************************)
(* C15. analyze_invoice never raises, and every value it returns, on the   *)
(* normal and on the failure path, is a structured verdict: overall_score  *)
(* in [0,1], confidence in [0,1], risk_level one of low, medium, high,     *)
(* unknown, flags a list and details a mapping; each of the five signal    *)
(* scores lies in [0,1].                                                   *)
(***************************************************************************)
C15_VerdictIsStructured ==
  Returned =>
    /\ ValidateFraudAnalysis(fraud_analysis)
    /\ fraud_analysis.confidence \in 0..100
    /\ FlagSet \subseteq {FlagOrder[i] : i \in DOMAIN FlagOrder} \cup {"analysis_failed"}
    /\ raised => fraud_analysis.details.error
    /\ ~raised => SignalScores \subseteq 0..100

(***************************************************************************)
(* Views for the failure of a single query.                                *)
(***************************************************************************)
Signals == {"duplicate", "inflation", "ghost_vendor", "split_billing", "pattern"}

\* the signal whose computation issues the query of a site
SignalOfSite ==
  [duplicate |-> "duplicate", category |-> "inflation", vendor_history |-> "ghost_vendor",
   split |-> "split_billing", recent |-> "pattern"]

\* the query of site q is issued by its signal during the call
QueryReached(q) ==
  /\ invoice_data.mapping
  /\ CASE q \in {"duplicate", "split"} ->
            /\ invoice_data.vendor_name # <<>>
            /\ InvoiceAmount(invoice_data) # 0
            /\ invoice_data.invoice_date # ""
       [] q = "category" ->
            InvoiceAmount(invoice_data) # 0 /\ invoice_data.category # ""
       [] q = "vendor_history" ->
            /\ invoice_data.vendor_name # <<>>
            /\ ~(\E k \in SuspiciousVendors : Contains(Lower(invoice_data.vendor_name), k))
       [] q = "recent" -> invoice_data.vendor_name # <<>>

\* the score of signal s for the last invoice over a store, every query answering
ScoreOver(s, store) ==
  CASE s = "duplicate" -> CheckDuplicateClaims(invoice_data, store, {})
    [] s = "inflation" -> CheckInflatedExpenses(invoice_data, store, {})
    [] s = "ghost_vendor" -> CheckGhostVendor(invoice_data, store, {})
    [] s = "split_billing" -> CheckSplitBilling(invoice_data, store, {})
    [] s = "pattern" -> CheckSuspiciousPatterns(invoice_data, store, {})

\* the signals other than that of site q have the scores of a call without failure
OthersAsUsual(q) ==
  \A s \in Signals \ {SignalOfSite[q]} : fraud_analysis.details[s] = ScoreOver(s, invoices)

(***************************************************************************)
(* C16. As claimed: when the historical query inside one signal            *)
(* computation raises, that signal's score is exactly 0.0, the other four  *)
(* are computed as usual and a normal verdict is returned; for each of the *)
(* five signals, the suspicious-patterns signal with a failing             *)
(* recent-invoice count query included.                                    *)
(***************************************************************************)
C16_FailedQueryZeroesSignal ==
  \A q \in QuerySites :
    (Returned /\ failing = {q} /\ QueryReached(q)) =>
      /\ ~raised
      /\ fraud_analysis.risk_level \in {"low", "medium", "high"}
      /\ fraud_analysis.details[SignalOfSite[q]] = 0
      /\ OthersAsUsual(q)

(***************************************************************************)
(* C16, amended. When the historical query inside one signal computation   *)
(* raises, a normal verdict is returned and the other four signals are     *)
(* computed as usual; the duplicate, inflation, ghost-vendor or            *)
(* split-billing score whose query raised is exactly 0.0, while a failing  *)
(* recent-invoice count query only makes the count 0: the                  *)
(* suspicious-patterns score keeps its amount and invoice-number           *)
(* contributions and loses the frequency contribution alone.               *)
(***************************************************************************)
C16_FailedQueryDegradesSignal ==
  \A q \in QuerySites :
    (Returned /\ failing = {q} /\ QueryReached(q)) =>
      /\ ~raised
      /\ fraud_analysis.risk_level \in {"low", "medium", "high"}
      /\ q # "recent" => fraud_analysis.details[SignalOfSite[q]] = 0
      /\ q = "recent" => fraud_analysis.details.pattern = ScoreOver("pattern", <<>>)
      /\ OthersAsUsual(q)

\* the count query raises for a vendor over the frequency limit: the score
\* keeps the 0.4 of the invoice number and loses the 0.4 of the frequency
C16_Witness ==
  /\ Returned
  /\ failing = {"recent"}
  /\ QueryReached("recent")
  /\ ScoreOver("pattern", invoices) = 80
  /\ fraud_analysis.details.pattern = 40
  /\ ~raised

(***************************************************************************)
(* C17. As claimed: a failing or timing-out query is treated as 'no        *)
(* candidates found': the verdict returned when a signal's query fails     *)
(* equals the verdict returned when the same query succeeds and returns no *)
(* records, for every signal, ghost_vendor included.                       *)
(***************************************************************************)
\* the score of signal s when the query of site q finds no record
ScoreWithoutCandidates(q, s) ==
  IF s = SignalOfSite[q] THEN ScoreOver(s, <<>>) ELSE ScoreOver(s, invoices)

\* the normal verdict of the last invoice over the scores sc
VerdictOfScores(sc) ==
  LET overall == OverallScore(<<sc.duplicate, sc.inflation, sc.ghost_vendor,
                                sc.split_billing, sc.pattern>>)
  IN  [overall_score |-> overall,
       flags |-> Flags(sc.duplicate, sc.inflation, sc.ghost_vendor, sc.split_billing,
                       sc.pattern),
       confidence |-> CalculateConfidence(invoice_data),
       risk_level |-> RiskLevel(overall),
       details |-> [duplicate |-> sc.duplicate, inflation |-> sc.inflation,
                    ghost_vendor |-> sc.ghost_vendor, split_billing |-> sc.split_billing,
                    pattern |-> sc.pattern, error |-> FALSE]]

C17_FailedQueryIsNoCandidates ==
  \A q \in QuerySites :
    (Returned /\ failing = {q} /\ QueryReached(q)) =>
      fraud_analysis = VerdictOfScores([s \in Signals |-> ScoreWithoutCandidates(q, s)])

(***************************************************************************)
(* C17, amended. For the duplicate, category, split-billing and            *)
(* recent-invoice queries the verdict returned when the query fails equals *)
(* the verdict returned when it succeeds and returns no records.  Not so   *)
(* for ghost_vendor: a failing vendor-history query gives the ghost-vendor *)
(* score 0.0, whereas a vendor with no record scores 0.7 (amount over      *)
(* 1000) or its verification score 0.2, 0.6 or 0.8; the other four scores  *)
(* are those of a call without failure.                                    *)
(***************************************************************************)
C17_FailedQueryIsNoCandidatesButGhost ==
  \A q \in QuerySites :
    (Returned /\ failing = {q} /\ QueryReached(q)) =>
      /\ OthersAsUsual(q)
      /\ q # "vendor_history" =>
           fraud_analysis = VerdictOfScores([s \in Signals |-> ScoreWithoutCandidates(q, s)])
      /\ q = "vendor_history" =>
           /\ fraud_analysis.details.ghost_vendor = 0
           /\ ScoreOver("ghost_vendor", <<>>) \in {20, 60, 70, 80}

\* the duplicate query raises over a store that holds a near duplicate
C17_Witness ==
  /\ Returned
  /\ failing = {"duplicate"}
  /\ QueryReached("duplicate")
  /\ ScoreOver("duplicate", invoices) > ThresholdDuplicate
  /\ fraud_analysis.details.duplicate = 0
  /\ "duplicate_claim" \notin FlagSet

(***************************************************************************)
(* C18. For a non-empty vendor_name containing no suspicious keyword (the  *)
(* vendor-history query answering), the ghost_vendor score is 0.7 when no  *)
(* stored row of any status has a vendor name containing the invoice's     *)
(* and the amount (total_amount, else amount) exceeds 1000; otherwise it   *)
(* is the verification score: 0.8 for a name shorter than 3 characters,    *)
(* else 0.6 when the name contains none of inc, llc, corp, ltd, company,   *)
(* co, else 0.2, never 0.  So a new two-letter vendor over 1000 scores 0.7 *)
(* and not 0.8, and 'Acme LLC' verifies at 0.2.                            *)
(***************************************************************************)
\* the stored rows of the invoice's vendor, whatever their status
PriorInvoices ==
  {i \in DOMAIN invoices :
     Contains(Lower(invoices[i].vendor_name), Lower(invoice_data.vendor_name))}

\* the verification score the claim states for the last invoice's vendor
VerificationAsClaimed ==
  LET name == Lower(invoice_data.vendor_name)
  IN  IF Len(name) < 3 THEN 80
      ELSE IF \A suffix \in { <<"i","n","c">>, <<"l","l","c">>, <<"c","o","r","p">>,
                              <<"l","t","d">>, <<"c","o","m","p","a","n","y">>,
                              <<"c","o">> } : ~Contains(name, suffix)
        THEN 60
      ELSE 20

C18_GhostVendorScore ==
  (/\ Returned
   /\ invoice_data.mapping
   /\ invoice_data.vendor_name # <<>>
   /\ \A k \in SuspiciousVendors : ~Contains(Lower(invoice_data.vendor_name), k)
   /\ "vendor_history" \notin failing)
  => /\ fraud_analysis.details.ghost_vendor =
          IF PriorInvoices = {} /\ InvoiceAmount(invoice_data) > 1000000 THEN 70
          ELSE VerificationAsClaimed
     /\ fraud_analysis.details.ghost_vendor # 0
     /\ (invoice_data.vendor_name = AcmeLLC /\ PriorInvoices # {})
          => fraud_analysis.details.ghost_vendor = 20

\* a new vendor 'Al' billing 12000 scores 0.7
C18_Witness ==
  /\ Returned
  /\ invoice_data.vendor_name = Al
  /\ InvoiceAmount(invoice_data) = 12000000
  /\ "vendor_history" \notin failing
  /\ invoices # <<>>
  /\ PriorInvoices = {}
  /\ fraud_analysis.details.ghost_vendor = 70

(***************************************************************************)
(* C19. As claimed: the suspicious-patterns score (every query answering)  *)
(* is the clamped sum min(1.0, 0.3 for a round amount, one with zero cents *)
(* such as 200.00, + 0.4 for an invoice_number holding INV-dddd-dddd +     *)
(* (0.5 for an amount under 0.01, else 0.3 for one over 10000) + 0.4 for   *)
(* strictly more than 10 'processed' invoices of the vendor in the last 30 *)
(* days), never above 1.0.                                                 *)
(***************************************************************************)
\* the 'processed' rows of the invoice's vendor in the trailing thirty days
RecentProcessed ==
  {i \in DOMAIN invoices :
     /\ Contains(Lower(invoices[i].vendor_name), Lower(invoice_data.vendor_name))
     /\ invoices[i].recent
     /\ invoices[i].status = "processed"}

\* the four contributions as the claim states them, in hundredths
ContributionsAsClaimed ==
  LET amount == InvoiceAmount(invoice_data)
  IN  (IF amount # 0 /\ amount % 1000 = 0 THEN 30 ELSE 0)
      + (IF SequentialInvoices(invoice_data.invoice_number) THEN 40 ELSE 0)
      + (IF amount # 0 /\ amount < 10 THEN 50
         ELSE IF amount > 10000000 THEN 30 ELSE 0)
      + (IF invoice_data.vendor_name # <<>> /\ Cardinality(RecentProcessed) > 10
           THEN 40 ELSE 0)

C19_PatternScoreIsClampedSum ==
  (Returned /\ invoice_data.mapping /\ failing = {}) =>
    /\ fraud_analysis.details.pattern <= 100
    /\ fraud_analysis.details.pattern =
         IF ContributionsAsClaimed > 100 THEN 100 ELSE ContributionsAsClaimed

(***************************************************************************)
(* C20. analyze_invoice only reads the historical store: no row is added,  *)
(* removed or changed between its start and its return.  In                *)
(* process_invoice the first write, the insertion of the new record with   *)
(* its verdict, comes strictly after analyze_invoice has returned; so the  *)
(* invoice being analysed is never among its own comparison candidates.    *)
(***************************************************************************)
\* a step that is the analyze_invoice call
AnalysisStep == phase # "returned" /\ phase' = "returned"

\* the stored rows of the invoice (the file) under analysis
OwnRecords == {i \in DOMAIN invoices : invoices[i].file_path = request.file_path}

\* the rows the vendor-history and category queries return to the analysis
ComparisonCandidates ==
  {i \in DOMAIN invoices :
     \/ Ilike(invoices[i].vendor_name, invoice_data.vendor_name)
     \/ /\ invoice_data.category # ""
        /\ invoices[i].category = invoice_data.category
        /\ invoices[i].status = "processed"}

AnalysisOnlyReads == [][AnalysisStep => invoices' = invoices]_vars

WritesFollowVerdict ==
  [][invoices' # invoices => (phase \in {"returned", "logged"} /\ ~AnalysisStep)]_vars

NeverOwnCandidate ==
  [](phase = "returned" => OwnRecords \cap ComparisonCandidates = {})

C20_StoreReadOnlyWriteAfterVerdict ==
  AnalysisOnlyReads /\ WritesFollowVerdict /\ NeverOwnCandidate

(***************************************************************************)
(* C21. The scoring engine keeps no shared mutable state between calls:    *)
(* over a fixed store, every analyze_invoice call on the shared            *)
(* FraudDetector returns the verdict it returns when it runs alone,        *)
(* however the steps of two concurrent calls interleave, although each     *)
(* text similarity fits the vectorizer of the instance anew.               *)
(***************************************************************************)
C21_InterleavingKeepsVerdicts ==
  \A c \in Callers :
    calls[c].pc = "done" =>
      calls[c].fraud_analysis = AnalyzeInvoiceResult(calls[c].invoice_data, invoices, {})

(***************************************************************************)
(* C22. The mapping extract_invoice_data returns holds no key whose value  *)
(* is absent or empty (None, empty string, empty list): a field that was   *)
(* not found is left out, so a text in which no line-item pattern matches  *)
(* gives a mapping without a line_items key.                               *)
(***************************************************************************)
C22_NoEmptyValueIsKept ==
  Extracted =>
    /\ \A k \in {"invoice_number", "vendor_name"} \cap DOMAIN extracted :
         extracted[k] # <<>>
    /\ "currency" \in DOMAIN extracted => extracted.currency # ""
    /\ "line_items" \in DOMAIN extracted => extracted.line_items # <<>>
    /\ (ExtractedNormally /\ ExtractLineItems(CleanText(text)) = <<>>)
         => "line_items" \notin DOMAIN extracted

(***************************************************************************)
(* C23. The extracted currency is the first of USD, EUR, GBP, CAD, AUD, in *)
(* that order, whose symbol or code occurs in the text, and USD when none  *)
(* occurs: a text whose only marker is the code CAD gives 'CAD', one whose *)
(* only marker is AUD gives 'AUD'.                                         *)
(***************************************************************************)
\* the currency the claim states for the raw text
CurrencyAsClaimed ==
  LET Has(s) == Contains(Lower(text), s)
  IN  IF Has(<<"u", "s", "d">>) \/ Has(<<"$">>) THEN "USD"
      ELSE IF Has(<<"e", "u", "r">>) \/ Has(<<EuroSign>>) THEN "EUR"
      ELSE IF Has(<<"g", "b", "p">>) \/ Has(<<PoundSign>>) THEN "GBP"
      ELSE IF Has(<<"c", "a", "d">>) THEN "CAD"
      ELSE IF Has(<<"a", "u", "d">>) THEN "AUD"
      ELSE "USD"

C23_CurrencyByPriority ==
  ExtractedNormally =>
    ("currency" \in DOMAIN extracted /\ extracted.currency = CurrencyAsClaimed)

(***************************************************************************)
(* C24. Line items are extracted per input line: every line of the text    *)
(* that matches '<quantity> <description> <amount>' gives exactly one      *)
(* entry of line_items, in line order, and the other lines give none, so a *)
(* text with k matching lines yields k line items.                         *)
(***************************************************************************)
\* the entries of the input lines, one search per line of the raw text
LineItemsAsClaimed == LineItemsOf(SplitLines(text, <<>>))

C24_OneLineItemPerMatchingLine ==
  ExtractedNormally =>
    ("line_items" \in DOMAIN extracted /\ extracted.line_items = LineItemsAsClaimed)

(***************************************************************************)
(* C25. No verdict returned by analyze_invoice contains the flag           *)
(* 'split_billing': the split-billing score is 0.0, 0.8 or 0.9 and the     *)
(* flag asks for a score strictly over 0.9, so the flag is out of reach    *)
(* also when the score is 0.9.                                             *)
(***************************************************************************)
C25_SplitBillingNeverFlagged ==
  Returned =>
    /\ "split_billing" \notin FlagSet
    /\ fraud_analysis.details.split_billing \in {0, 80, 90}
    /\ ~(90 > ThresholdSplitBilling)

\* two same-day rows of one vendor whose amounts sum over 5000: score 0.9
C25_Witness ==
  /\ Normal
  /\ SplitBillingScore = 90
  /\ fraud_analysis.details.split_billing = 90
  /\ fraud_analysis.overall_score >= 90
  /\ "split_billing" \notin FlagSet

(***************************************************************************)
(* C26. On a non-failure verdict a non-empty flags list implies an         *)
(* overall_score over 0.6 and a risk_level of 'medium' or 'high': a flag   *)
(* is never raised under 'low'.  The converse does not hold: 'high' with   *)
(* an empty flags list is reachable, through an inflation score of 1.0 or  *)
(* a split-billing score of 0.9 that no flag reports.                      *)
(***************************************************************************)
C26_FlagsImplyElevatedRisk ==
  Normal =>
    /\ fraud_analysis.flags # <<>> =>
         /\ fraud_analysis.overall_score > 60
         /\ fraud_analysis.risk_level \in {"medium", "high"}
    /\ fraud_analysis.risk_level = "low" => fraud_analysis.flags = <<>>

\* risk high on the split-billing score alone, and not one flag
C26_Witness ==
  /\ Normal
  /\ fraud_analysis.risk_level = "high"
  /\ fraud_analysis.flags = <<>>
  /\ fraud_analysis.overall_score = 90
  /\ SplitBillingScore = 90
  /\ InflationScore < 90

\* risk high on the inflation score alone, and not one flag
C26_HighOnInflationAlone ==
  /\ Normal
  /\ fraud_analysis.risk_level = "high"
  /\ fraud_analysis.flags = <<>>
  /\ InflationScore = 100
  /\ SplitBillingScore = 0

\* a flagged verdict of risk medium
C26_FlaggedMedium ==
  /\ Normal
  /\ fraud_analysis.flags # <<>>
  /\ fraud_analysis.risk_level = "medium"

(***************************************************************************)
(* C27. The rows process_invoice stores never have total_amount set, and   *)
(* the duplicate query selects on the stored total_amount: in a store      *)
(* filled only by process_invoice the duplicate score of every analysed    *)
(* invoice is 0.0 and 'duplicate_claim' is never flagged, also when a file *)
(* identical to a processed one is submitted again.                        *)
(***************************************************************************)
\* process_invoice holds the verdict of its analyze_invoice call
HoldsVerdict == phase \in {"returned", "created", "logged", "updated", "reprocessed"}

C27_OwnRecordsNeverDuplicate ==
  /\ \A i \in DOMAIN invoices : invoices[i].total_amount = 0
  /\ HoldsVerdict =>
       /\ fraud_analysis.details.duplicate = 0
       /\ CheckDuplicateClaims(invoice_data, invoices, {}) = 0
       /\ "duplicate_claim" \notin FlagSet

\* the second file is stored and processed, and its copy is analysed with
\* every query answering
C27_Witness ==
  /\ phase = "returned"
  /\ request.file_path = 5
  /\ failing = {}
  /\ \E i \in DOMAIN invoices :
       /\ invoices[i].file_path = 2
       /\ invoices[i].status = "processed"
       /\ invoices[i].vendor_name = invoice_data.vendor_name
       /\ invoices[i].amount = InvoiceAmount(invoice_data)
       /\ invoices[i].invoice_date = invoice_data.invoice_date
  /\ fraud_analysis.details.duplicate = 0

(***************************************************************************)
(* C28. A successful reprocess_invoice(id) runs process_invoice again on   *)
(* the file of the original row, which inserts a new row of status         *)
(* 'processed', and then sets the original row to 'reprocessed' with the   *)
(* new fraud results: one row more, two audit entries ('invoice_processed' *)
(* for the new row, then 'invoice_reprocessed' for the original), and the  *)
(* original is no longer selected by a query on status 'processed'.        *)
(***************************************************************************)
\* the rows a query on status 'processed' can return
Eligible == {i \in DOMAIN invoices : invoices[i].status = "processed"}

ReprocessedAsClaimed ==
  phase = "reprocessed" =>
    LET original == request.invoice_id
        new == Len(invoices)
        logged == Len(audit_log)
    IN  /\ Len(invoices) = request.records + 1
        /\ original < new
        /\ invoices[new].status = "processed"
        /\ invoices[new].file_path = invoices[original].file_path
        /\ invoices[new].fraud_score = fraud_analysis.overall_score
        /\ invoices[new].fraud_flags = fraud_analysis.flags
        /\ invoices[original].status = "reprocessed"
        /\ invoices[original].fraud_score = fraud_analysis.overall_score
        /\ invoices[original].fraud_flags = fraud_analysis.flags
        /\ logged = request.entries + 2
        /\ audit_log[logged - 1] = [invoice_id |-> new, action |-> "invoice_processed"]
        /\ audit_log[logged] = [invoice_id |-> original, action |-> "invoice_reprocessed"]
        /\ original \notin Eligible
        /\ new \in Eligible

\* a reprocess_invoice call leaves every other row as it was
ReprocessTouchesOriginalOnly ==
  [][request.caller = "reprocess" =>
       \A i \in DOMAIN invoices :
         i # request.invoice_id => (i \in DOMAIN invoices' /\ invoices'[i] = invoices[i])]_vars

StepsOfCall ==
  StepsToVerdict \o <<"create_invoice_record", "log_audit_trail", "update_invoice_record",
                      "log_audit_trail">>

InProcess == request.caller # "none"

RecordAfterVerdict ==
  InProcess =>
    /\ request.steps = SubSeq(StepsOfCall, 1, Len(request.steps))
    /\ Len(invoices) > request.records =>
         /\ Len(request.steps) > Len(StepsToVerdict)
         /\ SubSeq(request.steps, 1, Len(StepsToVerdict)) = StepsToVerdict
         /\ Len(invoices) = request.records + 1
    /\ Len(audit_log) > request.entries =>
         /\ Len(invoices) > request.records
         /\ audit_log[request.entries + 1] =
              [invoice_id |-> Len(invoices), action |-> "invoice_processed"]

FailureBeforeAnalysisChangesNothing ==
  (phase = "failed" /\ request.error \in RaisedBeforeAnalysis) =>
    /\ raised
    /\ Len(request.steps) < Len(StepsToVerdict)
    /\ Len(invoices) = request.records
    /\ Len(audit_log) = request.entries

RecordsHaveRequiredFields ==
  \A i \in DOMAIN invoices :
    /\ invoices[i].vendor_name # <<>>
    /\ invoices[i].amount # 0
    /\ invoices[i].invoice_date # ""
    /\ invoices[i].status \in {"processed", "reprocessed"}

StoredAsProcessed ==
  [][/\ \A i \in DOMAIN invoices' \ DOMAIN invoices : invoices'[i].status = "processed"
     /\ \A i \in DOMAIN invoices :
          /\ i \in DOMAIN invoices'
          /\ invoices'[i].status # invoices[i].status =>
               (request.caller = "reprocess" /\ phase = "logged" /\ i = request.invoice_id)]_vars

C29_ValidationFailed ==
  /\ phase = "failed"
  /\ request.error = "Invalid invoice data extracted"
  /\ request.file_path = 4
  /\ invoices # <<>>
  /\ Len(invoices) = request.records

(***************************************************************************)
(* C30. batch_process_invoices returns exactly one result per input path,  *)
(* in input order.  A file whose processing raises gives an entry with     *)
(* status 'failed' and the error text; it does not abort the batch and     *)
(* does not undo the rows created for earlier files; every later file is   *)
(* still processed, and the call itself never raises.                      *)
(***************************************************************************)
\* the error process_invoice raises on a file that cannot be stored
ErrorOf(file_path) ==
  IF FilesOnDisk[file_path] = "empty" THEN "Invalid file format or corrupted file"
  ELSE IF FilesOnDisk[file_path] = "blank" THEN "No text could be extracted from the file"
  ELSE IF ~ValidateInvoiceData(UploadedFiles[file_path]) THEN "Invalid invoice data extracted"
  ELSE "commit failed"

\* the i-th result answers the i-th path
ResultAnswers(i) ==
  LET result == batch.results[i]
      file_path == batch.file_paths[i]
  IN  /\ result.status \in {"processed", "failed"}
      /\ result.status = "failed" =>
           /\ result.file_path = file_path
           /\ result.error = ErrorOf(file_path)
      /\ result.status = "processed" =>
           /\ result.invoice_id \in DOMAIN invoices
           /\ invoices[result.invoice_id].file_path = file_path
           /\ \A j \in 1..(i - 1) :
                batch.results[j].status = "processed" =>
                  batch.results[j].invoice_id < result.invoice_id

OneResultPerPath ==
  /\ batch.pc = "running" =>
       /\ Len(batch.results) = batch.position - 1
       /\ \A i \in DOMAIN batch.results : ResultAnswers(i)
  /\ batch.pc = "returned" =>
       /\ Len(batch.results) = Len(batch.file_paths)
       /\ \A i \in DOMAIN batch.results : ResultAnswers(i)
       /\ phase = "idle" /\ ~raised

\* an exception of process_invoice ends in the results, the loop goes on, and
\* no step of the batch removes or changes a stored row
BatchCatchesAndKeeps ==
  [][batch.pc = "running" =>
       /\ batch'.pc \in {"running", "returned"}
       /\ batch'.file_paths = batch.file_paths
       /\ Len(invoices') >= Len(invoices)
       /\ SubSeq(invoices', 1, Len(invoices)) = invoices
       /\ (phase = "failed" =>
             /\ Len(batch'.results) = Len(batch.results) + 1
             /\ batch'.results[Len(batch'.results)].status = "failed"
             /\ batch'.position = batch.position + 1)]_vars

C30_BatchGivesOneResultPerPath == []OneResultPerPath /\ BatchCatchesAndKeeps

\* a failing file between two that are stored
C30_Witness ==
  /\ batch.pc = "returned"
  /\ batch.file_paths = <<1, 7, 1>>
  /\ Len(batch.results) = 3
  /\ batch.results[1].status = "processed"
  /\ batch.results[2].status = "failed"
  /\ batch.results[2].error = "No text could be extracted from the file"
  /\ batch.results[3].status = "processed"
  /\ Len(invoices) = 2

====
